---- MODULE Spec2Model ----
(***************************************************************************)
(* Real-time session engine of my-website-backend:                         *)
(*   - src/src/webhooks/chess.ts : matchmaking queue, bidding, match clock *)
(*   - src/src/webhooks/index.ts : quiz lobbies and quiz games             *)
(* Every socket handler and every timer callback runs to completion on the *)
(* single-threaded event loop, so each is one action.  An `await` splits a *)
(* handler into the part before it and the continuation after it.          *)
(*                                                                         *)
(* A handler is written as an operator from the program state (a record)   *)
(* and the handler's inputs to the state after it; the events it emits are *)
(* collected in the record's `emits` field.  The action of the handler     *)
(* applies the operator to the current state.                              *)
(***************************************************************************)
EXTENDS Integers, Sequences, FiniteSets, TLC

\* ------------------------------------------------------------------ bounds
NumSockets == 3     \* match channels that ever connect
MatchPlayers == 2   \* of them, the channels that connect in the runs of one match
MaxPlies == 2       \* accepted moves per match session
MaxThink == 1       \* players act on a running match only while the clocks differ by at most this
MaxBidOver == 1     \* explicit bids range up to MIN_BID + MaxBidOver seconds
MaxEndCalls == 2    \* participants of an ended session drop only while it has fewer endGame calls
NumQuizSockets == 3     \* quiz channels that ever connect
MaxCode == 2            \* lobby codes generateLobbyCode draws from
MaxQuestions == 2       \* cards of a deck
MaxGameObjs == 2        \* quiz games created (start_game / restart_game that reach the deck)
MaxLiveGames == 1       \* quiz game objects in use when a start_game / restart_game is accepted
MaxLobbyObjs == 2       \* lobbies created
QuestionTimeLimit == 1  \* settings.questionTimeLimit, seconds
MaxPending == 2         \* quiz handlers suspended at a deck lookup at the same time
MaxTimers == 2          \* question timeouts, and result delays, pending for one quiz game
GamePlayers == 2        \* quiz channels that connect in the runs with games (QuizSpec)
GameCodes == 1          \* lobby codes drawn in the runs with games
GameLobbyObjs == 1      \* lobbies created in the runs with games
TimerPlayers == 1    \* quiz channels of the runs driven by timers alone
GamePending == 1        \* handlers suspended at the same time in the runs with games
RoundGames == 1         \* quiz games created in the runs with three players (RoundSpec)

\* ------------------------------------------------------- program constants
MIN_BID == 60
DEFAULT_BID == 120
BIDDING_WINDOW == 10
MAX_PLAYERS == 50
BASE_POINTS == 100
RESULT_DELAY == 3

Sockets == 1 .. NumSockets

\* A bid payload `time` is a JavaScript number.  It is given in half seconds
\* (h stands for h/2 seconds) so that Math.floor has something to do; the
\* value NaN stands for a payload whose `time` is NaN or missing.
NaN == 0 - 1000000
BidInputs ==
    {NaN, -1, MIN_BID, 2 * MIN_BID - 1} \cup (2 * MIN_BID .. 2 * (MIN_BID + MaxBidOver) + 1)

VARIABLES
    sock,          \* per channel: connection stage, connected flag, socket.data.gameId
    bid,           \* per channel: the bid field of its Player object (0 = undefined)
    waitingQueue,  \* sequence of channels (their Player objects)
    games,         \* the Game objects, indexed by game id
    activeGames,   \* ids present in the activeGames map
    pendingEnd,    \* per game: endGame invocations suspended at the win / loss updateUserStats await
    endCalls,      \* per game: number of endGame invocations so far
    statWrites,    \* per game: completed win / loss statistics updates
    turnTimerId,   \* which turn interval is armed: setInterval returns a new one each time (mod 2)
    qsock,         \* per quiz channel: stage, isAuthenticated, socket.data.lobbyCode (0 = unset)
    lobbyObjs,     \* the QuizspireLobby objects, indexed by object id
    lobbies,       \* the lobbies map: code -> lobby object id (0 = no entry)
    gameObjs,      \* the QuizspireGame objects, indexed by object id
    quizGames,     \* the quiz's activeGames map: code -> game object id (0 = no entry)
    pendingOps     \* create_lobby / start_game / restart_game handlers suspended at the deck lookup

chessVars == <<sock, bid, waitingQueue, games, activeGames, pendingEnd, endCalls, statWrites,
               turnTimerId>>

quizVars == <<qsock, lobbyObjs, lobbies, gameObjs, quizGames, pendingOps>>

vars == <<sock, bid, waitingQueue, games, activeGames, pendingEnd, endCalls, statWrites,
          turnTimerId, qsock, lobbyObjs, lobbies, gameObjs, quizGames, pendingOps>>

\* ------------------------------------------------------------------ events
Ev(to, name, msg, t, w, b) ==
    [to |-> to, name |-> name, msg |-> msg, time |-> t, whiteTime |-> w, blackTime |-> b]

Err(to, msg) == Ev(to, "error", msg, 0, 0, 0)

NoEnd == [winner |-> "none", reason |-> ""]

Emit(S, evs) == [S EXCEPT !.emits = @ \cup evs]

\* ----------------------------------------------------------------- helpers
Max(a, b) == IF a >= b THEN a ELSE b

Min(a, b) == IF a <= b THEN a ELSE b

Abs(x) == IF x < 0 THEN 0 - x ELSE x

RemoveAt(q, i) == SubSeq(q, 1, i - 1) \o SubSeq(q, i + 1, Len(q))

IsNaN(x) == x = NaN

\* Math.floor of a payload given in half seconds.
Floor(h) == IF IsNaN(h) THEN NaN ELSE h \div 2

\* --------------------------------------------------------------- rule engine
\* chess.js is consumed as an oracle: a position is the number of plies played
\* plus the terminal condition it reports.
Turn(G) == IF G.plies % 2 = 0 THEN "w" ELSE "b"

TimeKey_White(G) == "whiteTime"

TimeKey(G) == IF Turn(G) = "w" THEN "whiteTime" ELSE "blackTime"

ColorOf_White(G, s) == "white"

ColorOf(G, s) == IF s = G.white THEN "white" ELSE "black"

Opponent_Same(c) == c

Opponent(c) == IF c = "white" THEN "black" ELSE "white"

SocketOf(G, c) == IF c = "white" THEN G.white ELSE G.black

\* ------------------------------------------------------------------- timers
\* turnArmed / biddingArmed are the runtime's armed intervals of the game
\* (how many intervals with that callback are live); timerInterval and
\* biddingTimerInterval are the handle fields of the Game object.
ClearTurn(G, key) ==
    IF key # "none" /\ G.turnArmed[key] > 0
    THEN [G EXCEPT !.turnArmed[key] = @ - 1]
    ELSE G

startTimer(G) ==
    LET G1 == ClearTurn(G, G.timerInterval)
    IN  [G1 EXCEPT !.timerInterval = TimeKey(G), !.turnArmed[TimeKey(G)] = @ + 1]

stopTimer(G) ==
    IF G.timerInterval # "none"
    THEN [ClearTurn(G, G.timerInterval) EXCEPT !.timerInterval = "none"]
    ELSE G

stopBiddingTimer_Keep(G) == G

stopBiddingTimer(G) ==
    IF G.biddingTimerInterval
    THEN [G EXCEPT !.biddingTimerInterval = FALSE,
                   !.biddingArmed = IF @ > 0 THEN @ - 1 ELSE 0]
    ELSE G

startBiddingTimer_Off(G) == G

startBiddingTimer(G) ==
    LET G1 == stopBiddingTimer(G)
    IN  [G1 EXCEPT !.biddingTimerInterval = TRUE, !.biddingArmed = @ + 1]

\* ------------------------------------------------------------------- state
NewGame(w, b) ==
    [white |-> w, black |-> b, plies |-> 0, over |-> "none", phase |-> "bidding",
     whiteTime |-> 0, blackTime |-> 0,
     timerInterval |-> "none", biddingTimerInterval |-> FALSE,
     biddingTimeLeft |-> BIDDING_WINDOW, drawOfferFrom |-> "none",
     turnArmed |-> [whiteTime |-> 0, blackTime |-> 0], biddingArmed |-> 0]

GameIds == 1 .. Len(games)

Init ==
    /\ sock = [s \in Sockets |-> [st |-> "new", connected |-> FALSE, gameId |-> 0]]
    /\ bid = [s \in Sockets |-> 0]
    /\ waitingQueue = << >>
    /\ games = << >>
    /\ activeGames = {}
    /\ pendingEnd = << >>
    /\ endCalls = << >>
    /\ statWrites = << >>
    /\ turnTimerId = 0
    /\ qsock = [s \in 1 .. NumQuizSockets |-> [st |-> "new", auth |-> FALSE, lobbyCode |-> 0]]
    /\ lobbyObjs = << >>
    /\ lobbies = [c \in 1 .. MaxCode |-> 0]
    /\ gameObjs = << >>
    /\ quizGames = [c \in 1 .. MaxCode |-> 0]
    /\ pendingOps = {}

\* The program state a handler starts from.  emits collects the events the
\* handler sends, end the endGame call it makes: they are the handler's
\* outputs and no part of the program state.
Cur ==
    [sock |-> sock, bid |-> bid, waitingQueue |-> waitingQueue, games |-> games,
     activeGames |-> activeGames, pendingEnd |-> pendingEnd, endCalls |-> endCalls,
     statWrites |-> statWrites, emits |-> {}, end |-> NoEnd]

\* A Game object nothing refers to any more (not in activeGames, no armed
\* interval, no suspended endGame) is garbage, and so is the Player object of
\* a channel that is neither queued nor a player of a live Game object.
\* Garbage is stored in one fixed form.
Collected == [NewGame(0, 0) EXCEPT !.phase = "collected"]

Live(S, g) ==
    \/ g \in S.activeGames
    \/ S.pendingEnd[g].win + S.pendingEnd[g].loss > 0
    \/ S.games[g].turnArmed.whiteTime + S.games[g].turnArmed.blackTime > 0
    \/ S.games[g].biddingArmed > 0

Collect(S) ==
    LET gs == [g \in 1 .. Len(S.games) |-> IF Live(S, g) THEN S.games[g] ELSE Collected]
        held(s) == \/ \E i \in 1 .. Len(S.waitingQueue) : S.waitingQueue[i] = s
                   \/ \E g \in 1 .. Len(gs) : gs[g].white = s \/ gs[g].black = s
    IN  [S EXCEPT !.games = gs,
                  !.bid = [s \in Sockets |-> IF held(s) THEN S.bid[s] ELSE 0]]

\* The state after a handler that ended in state S.  rearmed: the handler
\* cleared the turn interval of a session and armed a new one for the same
\* clock.  With no turn interval armed there is none to tell apart.
CommitTimer(S, rearmed) ==
    \E C \in {Collect(S)} :
        /\ sock' = C.sock
        /\ bid' = C.bid
        /\ waitingQueue' = C.waitingQueue
        /\ games' = C.games
        /\ activeGames' = C.activeGames
        /\ pendingEnd' = C.pendingEnd
        /\ endCalls' = C.endCalls
        /\ statWrites' = C.statWrites
        /\ turnTimerId' = IF \A g \in 1 .. Len(C.games) : C.games[g].timerInterval = "none"
                          THEN 0
                          ELSE IF rearmed THEN 1 - turnTimerId ELSE turnTimerId
        /\ UNCHANGED quizVars

Commit(S) == CommitTimer(S, FALSE)

\* const gameId = socket.data.gameId; if (!gameId || !activeGames.has(gameId)): 0
LookupGame(S, s) ==
    IF S.sock[s].gameId # 0 /\ S.sock[s].gameId \in S.activeGames
    THEN S.sock[s].gameId ELSE 0

\* The moments at which the participants of a running match send events (or
\* drop their connection): early in a turn; later the clock just runs down.
Awake(s) ==
    IF sock[s].gameId = 0 THEN TRUE
    ELSE LET G == games[sock[s].gameId]
         IN  G.phase = "playing" => Abs(G.whiteTime - G.blackTime) <= MaxThink

\* Channel s can deliver an event: its handlers are registered and it is open.
Sends(s) == sock[s].st = "ready" /\ sock[s].connected

CanSend(s) == Sends(s) /\ Awake(s)

\* ------------------------------------------------------------------ endGame
EndGameObj_KeepTimer(G) == [G EXCEPT !.phase = "ended"]

\* The synchronous part of endGame on the Game object: stopTimer, phase.
EndGameObj(G) == [stopTimer(G) EXCEPT !.phase = "ended"]

\* win / draw events, to the participants that are still connected.
EndEmits(G, wc, reason, sk) ==
    {Ev(t, IF wc # "none" THEN "win" ELSE "draw", reason,
        IF wc # "none" THEN SocketOf(G, wc) ELSE 0, 0, 0) :
       t \in {u \in {G.white, G.black} : sk[u].connected}}

\* socket.data.gameId = null for both players; activeGames.delete(game.id)
Deregister(S, g) ==
    [S EXCEPT !.sock = [t \in Sockets |->
                          IF t = S.games[g].white \/ t = S.games[g].black
                          THEN [S.sock[t] EXCEPT !.gameId = 0] ELSE S.sock[t]],
              !.activeGames = @ \ {g}]

\* endGame(game, winnerColor, reason).  With a winner the function suspends
\* at `await updateUserStats`; without one it runs through to the deletion.
endGame(S, g, wc, reason) ==
    LET G == EndGameObj(S.games[g])
        S1 == [S EXCEPT !.games[g] = G,
                        !.endCalls[g] = @ + 1,
                        !.end = [winner |-> wc, reason |-> reason],
                        !.emits = @ \cup EndEmits(G, wc, reason, S.sock)]
    IN  IF wc # "none"
        THEN [S1 EXCEPT !.pendingEnd[g].win = @ + 1]
        ELSE Deregister(S1, g)

\* An updateUserStats call of a suspended endGame of game g settles (ok: it
\* resolved, otherwise it rejected and the catch block runs).  After the
\* "win" call resolves the function awaits the "loss" call; after that one,
\* or after a rejection, it finishes with the deletion.
statsSettled(S, g, stage, ok) ==
    LET S1 == IF ok THEN [S EXCEPT !.statWrites[g][stage] = @ + 1] ELSE S
    IN  IF ok /\ stage = "win"
        THEN [S1 EXCEPT !.pendingEnd[g].win = @ - 1, !.pendingEnd[g].loss = @ + 1]
        ELSE Deregister([S1 EXCEPT !.pendingEnd[g][stage] = @ - 1], g)

StatsSettled(g, stage, ok) ==
    /\ g \in GameIds
    /\ pendingEnd[g][stage] > 0
    /\ Commit(statsSettled(Cur, g, stage, ok))

\* -------------------------------------------------------------- connection
\* The transport accepts the channel; the connection handler is now awaiting
\* auth.api.getSession.  Channel ids are handed out in order.
Connect(s) ==
    /\ sock[s].st = "new"
    /\ \A t \in Sockets : t < s => sock[t].st # "new"
    /\ Commit([Cur EXCEPT !.sock[s] = [st |-> "auth", connected |-> TRUE, gameId |-> 0]])

\* No cookie or no valid session: error, socket.disconnect(), no handler registered.
ConnectRejected(s) ==
    /\ sock[s].st = "auth"
    /\ Commit(Emit([Cur EXCEPT !.sock[s] = [st |-> "rejected", connected |-> FALSE, gameId |-> 0]],
                   {Err(s, "Authentication failed")}))

\* The pairing logic that follows the await; the handlers are registered after it.
pair(S, s, isNewWhite) ==
    IF Len(S.waitingQueue) > 0
    THEN LET opponent == Head(S.waitingQueue)
             gameId == Len(S.games) + 1
             w == IF isNewWhite THEN s ELSE opponent
             b == IF isNewWhite THEN opponent ELSE s
         IN  Emit([S EXCEPT !.waitingQueue = Tail(@),
                            !.games = Append(@, startBiddingTimer(NewGame(w, b))),
                            !.endCalls = Append(@, 0),
                            !.pendingEnd = Append(@, [win |-> 0, loss |-> 0]),
                            !.statWrites = Append(@, [win |-> 0, loss |-> 0]),
                            !.activeGames = @ \cup {gameId},
                            !.sock = [t \in Sockets |->
                                        IF t = w \/ t = b THEN [S.sock[t] EXCEPT !.gameId = gameId]
                                        ELSE S.sock[t]]],
                  {Ev(w, "paired", "", b, 0, 0), Ev(b, "paired", "", w, 0, 0)})
    ELSE Emit([S EXCEPT !.waitingQueue = Append(@, s)], {Ev(s, "waiting", "", 0, 0, 0)})

Pair(s) ==
    /\ sock[s].st = "auth"
    /\ \E isNewWhite \in BOOLEAN :
         LET S1 == pair([Cur EXCEPT !.sock[s].st = "ready"], s, isNewWhite)
         IN  Commit(S1)

\* ---------------------------------------------------------------------- bid
\* Math.max(MIN_BID, Math.floor(data.time)); NaN is contagious.
SanitizeBid(h) == IF IsNaN(Floor(h)) THEN NaN ELSE Max(MIN_BID, Floor(h))

SelectedTime_Max(a, b) == Max(MIN_BID, Max(a, b))

SelectedTime(a, b) == Max(MIN_BID, Min(a, b))

\* whiteTime = blackTime = selectedTime; phase = "playing"; the two start
\* events; startTimer(game)
startPlaying(S, g, sel) ==
    LET G == [S.games[g] EXCEPT !.whiteTime = sel, !.blackTime = sel, !.phase = "playing"]
    IN  Emit([S EXCEPT !.games[g] = startTimer(G)],
             {Ev(G.white, "start", "white", sel, G.whiteTime, G.blackTime),
              Ev(G.black, "start", "black", sel, G.whiteTime, G.blackTime)})

\* if (game.white.bid && game.black.bid)
BothBid(S, g) == S.bid[S.games[g].white] # 0 /\ S.bid[S.games[g].black] # 0

bidHandler(S, s, h) ==
    LET g == LookupGame(S, s) IN
    IF g = 0 THEN Emit(S, {Err(s, "No active game")})
    ELSE LET G == S.games[g] IN
    IF G.phase # "bidding" THEN Emit(S, {Err(s, "Bidding phase is over")})
    ELSE LET b == SanitizeBid(h) IN
    IF IsNaN(b) \/ b < MIN_BID
    THEN Emit(S, {Err(s, "Invalid bid, must be at least 60 seconds")})
    ELSE LET isWhite == s = G.white
             S1 == [S EXCEPT !.bid[IF isWhite THEN G.white ELSE G.black] = b]
         IN  IF BothBid(S1, g)
             THEN LET S2 == [S1 EXCEPT !.games[g] = stopBiddingTimer(@)]
                  IN  startPlaying(S2, g, SelectedTime(S2.bid[G.white], S2.bid[G.black]))
             ELSE S1

Bid(s, h) ==
    /\ CanSend(s)
    /\ Commit(bidHandler(Cur, s, h))

\* ------------------------------------------------------------ bidding timer
DefaultBid_Always(b) == DEFAULT_BID

DefaultBid(b) == IF b = 0 THEN DEFAULT_BID ELSE b

\* One firing of an armed bidding interval of game g.
biddingTick(S, g) ==
    LET G1 == [S.games[g] EXCEPT !.biddingTimeLeft = @ - 1]
        S1 == Emit([S EXCEPT !.games[g] = G1],
                   {Ev(t, "bidding_time_update", "", G1.biddingTimeLeft, 0, 0) :
                      t \in {G1.white, G1.black}})
    IN  IF G1.biddingTimeLeft <= 0
        THEN LET S2 == [S1 EXCEPT !.games[g] = stopBiddingTimer(@),
                                  !.bid[G1.white] = DefaultBid(@)]
                 S3 == [S2 EXCEPT !.bid[G1.black] = DefaultBid(@)]
             IN  startPlaying(S3, g, SelectedTime(S3.bid[G1.white], S3.bid[G1.black]))
        ELSE S1

BiddingTick(g) ==
    /\ g \in GameIds
    /\ games[g].biddingArmed > 0
    /\ Commit(biddingTick(Cur, g))

\* --------------------------------------------------------------- turn timer
TimeWinner_Same(G) == IF Turn(G) = "w" THEN "white" ELSE "black"

TimeWinner(G) == IF Turn(G) = "w" THEN "black" ELSE "white"

\* One firing of an armed turn interval of game g whose callback captured key.
turnTick(S, g, key) ==
    LET G1 == [S.games[g] EXCEPT ![key] = @ - 1]
        S1 == Emit([S EXCEPT !.games[g] = G1],
                   {Ev(t, "time_update", "", 0, G1.whiteTime, G1.blackTime) :
                      t \in {G1.white, G1.black}})
    IN  IF G1[key] <= 0
        THEN LET G2 == [ClearTurn(G1, G1.timerInterval) EXCEPT !.timerInterval = "none"]
             IN  endGame([S1 EXCEPT !.games[g] = G2], g, TimeWinner(G2), "time")
        ELSE S1

TurnTick(g, key) ==
    /\ g \in GameIds
    /\ games[g].turnArmed[key] > 0
    /\ Commit(turnTick(Cur, g, key))

\* --------------------------------------------------------------------- move
\* What chess.move and the terminal-condition queries report for a submitted
\* move: rejected, or accepted with the position not over / checkmate / over
\* for another reason (stalemate, repetition, insufficient material, ...).
MoveResults == {"illegal", "none", "checkmate", "draw"}

ClearOffer_Keep(G) == G

\* game.drawOfferFrom = null
ClearOffer(G) == [G EXCEPT !.drawOfferFrom = "none"]

MoveWinner_Opponent(playerColor) == IF playerColor = "w" THEN "black" ELSE "white"

MoveWinner(playerColor) == IF playerColor = "w" THEN "white" ELSE "black"

AfterRejected_Stopped(G) == G

AfterRejected(G) == startTimer(G)

moveHandler(S, s, r) ==
    LET g == LookupGame(S, s) IN
    IF g = 0 THEN Emit(S, {Err(s, "No active game")})
    ELSE LET G == S.games[g] IN
    IF G.phase # "playing" THEN Emit(S, {Err(s, "Game not in playing phase")})
    ELSE LET playerColor == IF s = G.white THEN "w" ELSE "b" IN
    IF Turn(G) # playerColor THEN Emit(S, {Err(s, "Not your turn")})
    ELSE LET G1 == stopTimer(G) IN
    IF r = "illegal"
    THEN Emit([S EXCEPT !.games[g] = AfterRejected(G1)], {Err(s, "Invalid move")})
    ELSE LET G2 == [G1 EXCEPT !.plies = @ + 1, !.over = r]
             S1 == Emit([S EXCEPT !.games[g] = startTimer(G2)],
                        {Ev(t, "update", "", G2.plies, 0, 0) : t \in {G2.white, G2.black}})
         IN  IF G2.over # "none"
             THEN IF G2.over = "checkmate"
                  THEN endGame(S1, g, MoveWinner(playerColor), "checkmate")
                  ELSE endGame(S1, g, "none", "draw")
             ELSE [S1 EXCEPT !.games[g] = ClearOffer(@)]

\* Whether the handler reaches chess.move for this sender.
MoveReachesEngine(s) ==
    /\ LookupGame(Cur, s) # 0
    /\ games[LookupGame(Cur, s)].phase = "playing"
    /\ Turn(games[LookupGame(Cur, s)]) = (IF s = games[LookupGame(Cur, s)].white THEN "w" ELSE "b")

\* Only MaxPlies legal moves are submitted per session.
Move(s, r) ==
    /\ CanSend(s)
    /\ (MoveReachesEngine(s) /\ r # "illegal") => games[LookupGame(Cur, s)].plies < MaxPlies
    /\ CommitTimer(moveHandler(Cur, s, r), MoveReachesEngine(s) /\ r = "illegal")

\* ------------------------------------------------------------------- resign
resignHandler(S, s) ==
    LET g == LookupGame(S, s) IN
    IF g = 0 THEN Emit(S, {Err(s, "No active game")})
    ELSE LET G == S.games[g] IN
    IF G.phase # "playing" THEN Emit(S, {Err(s, "Game not in playing phase")})
    ELSE endGame(S, g, Opponent(ColorOf(G, s)), "resignation")

Resign(s) ==
    /\ CanSend(s)
    /\ Commit(resignHandler(Cur, s))

\* -------------------------------------------------------------------- draws
offerDrawHandler(S, s) ==
    LET g == LookupGame(S, s) IN
    IF g = 0 THEN Emit(S, {Err(s, "No active game")})
    ELSE LET G == S.games[g] IN
    IF G.phase # "playing" THEN Emit(S, {Err(s, "Game not in playing phase")})
    ELSE LET playerColor == ColorOf(G, s)
             opponentSocket == SocketOf(G, Opponent(playerColor))
         IN  IF G.drawOfferFrom = playerColor
             THEN Emit(S, {Err(s, "You already have a pending draw offer")})
             ELSE Emit([S EXCEPT !.games[g].drawOfferFrom = playerColor],
                       {Ev(opponentSocket, "draw_offered", playerColor, 0, 0, 0),
                        Ev(s, "draw_offer_sent", "", 0, 0, 0)})

OfferDraw(s) ==
    /\ CanSend(s)
    /\ Commit(offerDrawHandler(Cur, s))

acceptDrawHandler(S, s) ==
    LET g == LookupGame(S, s) IN
    IF g = 0 THEN Emit(S, {Err(s, "No active game")})
    ELSE LET G == S.games[g] IN
    IF G.phase # "playing" \/ G.drawOfferFrom = "none"
    THEN Emit(S, {Err(s, "No pending draw offer")})
    ELSE IF G.drawOfferFrom = ColorOf(G, s)
         THEN Emit(S, {Err(s, "Cannot accept your own draw offer")})
         ELSE endGame(S, g, "none", "draw_agreed")

AcceptDraw(s) ==
    /\ CanSend(s)
    /\ Commit(acceptDrawHandler(Cur, s))

declineDrawHandler(S, s) ==
    LET g == LookupGame(S, s) IN
    IF g = 0 THEN Emit(S, {Err(s, "No active game")})
    ELSE LET G == S.games[g] IN
    IF G.phase # "playing" \/ G.drawOfferFrom = "none"
    THEN Emit(S, {Err(s, "No pending draw offer")})
    ELSE IF G.drawOfferFrom = ColorOf(G, s)
         THEN Emit(S, {Err(s, "Cannot decline your own draw offer")})
         ELSE Emit([S EXCEPT !.games[g] = ClearOffer(@)],
                   {Ev(SocketOf(G, Opponent(ColorOf(G, s))), "draw_declined", "", 0, 0, 0),
                    Ev(s, "draw_offer_cancelled", "", 0, 0, 0)})

DeclineDraw(s) ==
    /\ CanSend(s)
    /\ Commit(declineDrawHandler(Cur, s))

\* --------------------------------------------------------------- disconnect
Requeue_Drop(q, p) == q

\* waitingQueue.push(opponentPlayer)
Requeue(q, p) == Append(q, p)

\* waitingQueue.findIndex((p) => p.socket.id === socket.id), 0 for -1
QueueIndex(q, s) ==
    IF \E i \in 1 .. Len(q) : q[i] = s
    THEN CHOOSE i \in 1 .. Len(q) : q[i] = s /\ \A j \in 1 .. i - 1 : q[j] # s
    ELSE 0

\* The disconnect handler of channel s; S already has the channel closed.
disconnectHandler(S, s) ==
    LET g == LookupGame(S, s) IN
    IF QueueIndex(S.waitingQueue, s) # 0
    THEN [S EXCEPT !.waitingQueue = RemoveAt(@, QueueIndex(S.waitingQueue, s))]
    ELSE IF g = 0 THEN S
    ELSE LET G == S.games[g]
             opponentPlayer == SocketOf(G, Opponent(ColorOf(G, s)))
         IN  IF G.phase = "bidding"
             THEN LET S1 == [S EXCEPT !.games[g] = stopBiddingTimer(@)]
                      S2 == IF S1.sock[opponentPlayer].connected
                            THEN Emit([S1 EXCEPT !.sock[opponentPlayer].gameId = 0,
                                                 !.waitingQueue = Requeue(@, opponentPlayer)],
                                      {Ev(opponentPlayer, "opponent_disconnected", "", 0, 0, 0)})
                            ELSE S1
                  IN  [S2 EXCEPT !.activeGames = @ \ {g}]
             ELSE endGame(S, g, Opponent(ColorOf(G, s)), "opponent disconnected")

\* The transport closes channel s.  While the connection handler is still
\* awaiting the session lookup no disconnect handler is registered yet.
Disconnect(s) ==
    /\ sock[s].connected
    /\ Awake(s)
    /\ LookupGame(Cur, s) # 0 => endCalls[LookupGame(Cur, s)] < MaxEndCalls
    /\ LET S == [Cur EXCEPT !.sock[s].connected = FALSE]
       IN  IF sock[s].st = "ready"
           THEN Commit(disconnectHandler(S, s))
           ELSE Commit(S)

\* ===================================================================== quiz
QuizSockets == 1 .. NumQuizSockets

Codes == 1 .. MaxCode

\* The settings objects clients send with create_lobby and start_game.
\* The time preset asks for a game of timeLimit = RESULT_DELAY seconds, which
\* have passed when the first advance delay has run.
SettingsInputs ==
    {[winCondition |-> "score", scoreThreshold |-> 100, correctAnswersThreshold |-> 0,
      hostParticipates |-> TRUE, allowLateJoin |-> FALSE, resetOnIncorrect |-> FALSE,
      questionTimeLimit |-> QuestionTimeLimit, timeLimit |-> 0],
     [winCondition |-> "correct_answers", scoreThreshold |-> 0, correctAnswersThreshold |-> 2,
      hostParticipates |-> FALSE, allowLateJoin |-> TRUE, resetOnIncorrect |-> TRUE,
      questionTimeLimit |-> QuestionTimeLimit, timeLimit |-> 0],
     [winCondition |-> "time", scoreThreshold |-> 0, correctAnswersThreshold |-> 0,
      hostParticipates |-> TRUE, allowLateJoin |-> TRUE, resetOnIncorrect |-> FALSE,
      questionTimeLimit |-> QuestionTimeLimit, timeLimit |-> RESULT_DELAY]}

\* start_game sent without settings
NoSettings ==
    [winCondition |-> "undefined", scoreThreshold |-> 0, correctAnswersThreshold |-> 0,
     hostParticipates |-> FALSE, allowLateJoin |-> FALSE, resetOnIncorrect |-> FALSE,
     questionTimeLimit |-> 0, timeLimit |-> 0]

\* selectedIndex payloads, and the milliseconds since the question started.
AnswerInputs == {-1, 0, 1, 4}

ElapsedInputs == {50}

\* deck.cards.length as the deck lookup finds it: no deck, or a full one.
DeckInputs == {0, MaxQuestions}

\* answersSubmitted has no entry for the user
NoAnswer == 0 - 2

\* question.correctIndex of the question at index i (the outcome of the shuffle)
CorrectIndex(i) == i % 4

\* An event: receiver, name, message or reason, a number of the payload, and
\* the list of the payload (results, finalScores), empty for the other events.
QEvData(to, name, msg, n, data) == [to |-> to, name |-> name, msg |-> msg, n |-> n, data |-> data]

QEv(to, name, msg, n) == QEvData(to, name, msg, n, << >>)

QErr(to, msg) == QEv(to, "error", msg, 0)

QEmit(Q, evs) == [Q EXCEPT !.emits = @ \cup evs]

QCur ==
    [qsock |-> qsock, lobbyObjs |-> lobbyObjs, lobbies |-> lobbies, gameObjs |-> gameObjs,
     quizGames |-> quizGames, pendingOps |-> pendingOps, emits |-> {}]

createPlayer(s, isHost) == [sid |-> s, score |-> 0, correctAnswers |-> 0, isHost |-> isHost]

PlayerIds_None(L) == {}

PlayerIds(L) == {L.players[i].sid : i \in 1 .. Len(L.players)}

FilterPlayers_None(ps, keep) == ps

\* lobby.players.filter(keep), keep given as a set of channels
FilterPlayers(ps, keep) == SelectSeq(ps, LAMBDA p : p.sid \in keep)

\* index of the player object of channel s in ps, 0 for undefined
FindPlayer(ps, s) ==
    IF \E i \in 1 .. Len(ps) : ps[i].sid = s
    THEN CHOOSE i \in 1 .. Len(ps) : ps[i].sid = s /\ \A j \in 1 .. i - 1 : ps[j].sid # s
    ELSE 0

broadcastLobbyUpdate(Q, l) ==
    QEmit(Q, {QEv(t, "lobby_update", Q.lobbyObjs[l].status, Len(Q.lobbyObjs[l].players)) :
                t \in PlayerIds(Q.lobbyObjs[l])})

\* if (game.timer) { clearTimeout(game.timer); game.timer = undefined; }
clearQuestionTimer(G) ==
    IF G.timer
    THEN [G EXCEPT !.timer = FALSE, !.timersArmed = IF @ > 0 THEN @ - 1 ELSE 0]
    ELSE G

NewQuizGame(l, nq) ==
    [lobby |-> l, currentQuestionIndex |-> 0, nq |-> nq,
     answersSubmitted |-> [s \in QuizSockets |-> NoAnswer],
     timer |-> FALSE, timersArmed |-> 0, nextPending |-> 0]

startQuestion(Q, g) ==
    LET G == Q.gameObjs[g]
        Q1 == [Q EXCEPT !.gameObjs[g].answersSubmitted = [s \in QuizSockets |-> NoAnswer]]
        Q2 == QEmit(Q1, {QEv(t, "question", "", G.currentQuestionIndex) :
                           t \in PlayerIds(Q.lobbyObjs[G.lobby])})
    IN  [Q2 EXCEPT !.gameObjs[g].timer = TRUE, !.gameObjs[g].timersArmed = @ + 1]

\* Standings: the first player of the stable descending sort by key.
Winner(ps, key) ==
    IF Len(ps) = 0 THEN 0
    ELSE ps[CHOOSE i \in 1 .. Len(ps) :
              /\ \A j \in 1 .. Len(ps) : ps[j][key] <= ps[i][key]
              /\ \A j \in 1 .. i - 1 : ps[j][key] < ps[i][key]].sid

SortDesc_Unsorted(ps, key) == ps

\* players.map(...).sort((a, b) => b[key] - a[key]): the stable descending sort.
RECURSIVE SortDesc(_, _)
SortDesc(ps, key) ==
    IF Len(ps) = 0 THEN << >>
    ELSE LET i == CHOOSE i \in 1 .. Len(ps) :
                    /\ \A j \in 1 .. Len(ps) : ps[j][key] <= ps[i][key]
                    /\ \A j \in 1 .. i - 1 : ps[j][key] < ps[i][key]
         IN  <<ps[i]>> \o SortDesc(RemoveAt(ps, i), key)

\* The entries of finalScores.
Standing(p) == [sid |-> p.sid, score |-> p.score, correctAnswers |-> p.correctAnswers]

quizEndGame(Q, g, reason) ==
    LET G == clearQuestionTimer(Q.gameObjs[g])
        l == G.lobby
        L == [Q.lobbyObjs[l] EXCEPT !.status = "ended"]
        key == IF L.settings.winCondition = "correct_answers" THEN "correctAnswers" ELSE "score"
        sortedPlayers == SortDesc([i \in 1 .. Len(L.players) |-> Standing(L.players[i])], key)
    IN  QEmit([Q EXCEPT !.gameObjs[g] = G, !.lobbyObjs[l] = L, !.quizGames[L.code] = 0],
              {QEvData(t, "game_ended", reason, Winner(L.players, key), sortedPlayers) :
                 t \in PlayerIds(L)})

\* With a player in the list, the callback throws when it reads a question
\* past the end of game.questions.
showQuestionResults(Q, g) ==
    LET G == Q.gameObjs[g] IN
    IF G.currentQuestionIndex >= G.nq /\ Len(Q.lobbyObjs[G.lobby].players) > 0 THEN Q
    ELSE LET ps == Q.lobbyObjs[G.lobby].players
             ids == PlayerIds(Q.lobbyObjs[G.lobby])
             selected(s) == IF G.answersSubmitted[s] = NoAnswer THEN -1 ELSE G.answersSubmitted[s]
             results == [i \in 1 .. Len(ps) |->
                           [sid |-> ps[i].sid, selectedIndex |-> selected(ps[i].sid),
                            isCorrect |-> selected(ps[i].sid) = CorrectIndex(G.currentQuestionIndex),
                            score |-> ps[i].score]]
         IN  [QEmit(Q, {QEvData(t, "question_results", "", G.currentQuestionIndex, results) :
                          t \in ids}
                       \cup {QEv(t, "leaderboard_update", "", 0) : t \in ids})
                EXCEPT !.gameObjs[g].nextPending = @ + 1]

AutoSubmit_None(G, ids) == G

\* if (!game.answersSubmitted.has(player.userId)) game.answersSubmitted.set(player.userId, -1)
AutoSubmit(G, ids) ==
    [G EXCEPT !.answersSubmitted =
       [s \in QuizSockets |-> IF s \in ids /\ @[s] = NoAnswer THEN -1 ELSE @[s]]]

handleQuestionTimeout(Q, g) ==
    LET G == clearQuestionTimer(Q.gameObjs[g])
        G1 == AutoSubmit(G, PlayerIds(Q.lobbyObjs[G.lobby]))
    IN  showQuestionResults([Q EXCEPT !.gameObjs[g] = G1], g)

MaxOver_First(ps, key) == IF Len(ps) = 0 THEN 0 - 1 ELSE ps[1][key]

\* Math.max(...players.map(f)), -Infinity for no players
MaxOver(ps, key) ==
    IF Len(ps) = 0 THEN 0 - 1
    ELSE CHOOSE m \in {ps[i][key] : i \in 1 .. Len(ps)} :
           \A i \in 1 .. Len(ps) : ps[i][key] <= m

nextQuestion(Q, g) ==
    LET Q1 == [Q EXCEPT !.gameObjs[g].currentQuestionIndex = @ + 1]
        G == Q1.gameObjs[g]
        L == Q1.lobbyObjs[G.lobby]
        settings == L.settings
    IN  IF G.currentQuestionIndex >= G.nq
        THEN quizEndGame(Q1, g, "all_questions_completed")
        ELSE IF settings.winCondition = "correct_answers"
                  /\ MaxOver(L.players, "correctAnswers") >= settings.correctAnswersThreshold
        THEN quizEndGame(Q1, g, "correct_answers_threshold_reached")
        ELSE IF settings.winCondition = "score"
                  /\ MaxOver(L.players, "score") >= settings.scoreThreshold
        THEN quizEndGame(Q1, g, "score_threshold_reached")
        ELSE startQuestion(Q1, g)

\* ------------------------------------------------------ quiz: object store
CollectedGame == [NewQuizGame(0, 0) EXCEPT !.currentQuestionIndex = 0 - 1]

CollectedLobby ==
    [code |-> 0, host |-> 0, players |-> << >>, settings |-> NoSettings, status |-> "collected"]

\* Game objects the registry or a pending timer callback refers to, lobby
\* objects the registry, a live game or a suspended handler refers to.
LiveGame(Q, g) ==
    \/ \E c \in Codes : Q.quizGames[c] = g
    \/ Q.gameObjs[g].timersArmed > 0
    \/ Q.gameObjs[g].nextPending > 0

LiveLobby(Q, l) ==
    \/ \E c \in Codes : Q.lobbies[c] = l
    \/ \E g \in 1 .. Len(Q.gameObjs) : LiveGame(Q, g) /\ Q.gameObjs[g].lobby = l
    \/ \E op \in Q.pendingOps : op.lobby = l

\* The data of a closed channel is never read again and is stored in one form.
QuizCollect(Q) ==
    [Q EXCEPT !.qsock = [s \in QuizSockets |->
                           IF Q.qsock[s].st = "closed"
                           THEN [st |-> "closed", auth |-> FALSE, lobbyCode |-> 0]
                           ELSE Q.qsock[s]],
              !.gameObjs = [g \in 1 .. Len(Q.gameObjs) |->
                              IF LiveGame(Q, g) THEN Q.gameObjs[g] ELSE CollectedGame],
              !.lobbyObjs = [l \in 1 .. Len(Q.lobbyObjs) |->
                               IF LiveLobby(Q, l) THEN Q.lobbyObjs[l] ELSE CollectedLobby]]

\* The state after a quiz handler that ended in state Q.
QuizCommit(Q) ==
    \E C \in {QuizCollect(Q)} :
        /\ \A g \in 1 .. Len(C.gameObjs) :
             C.gameObjs[g].timersArmed <= MaxTimers /\ C.gameObjs[g].nextPending <= MaxTimers
        /\ qsock' = C.qsock
        /\ lobbyObjs' = C.lobbyObjs
        /\ lobbies' = C.lobbies
        /\ gameObjs' = C.gameObjs
        /\ quizGames' = C.quizGames
        /\ pendingOps' = C.pendingOps
        /\ UNCHANGED chessVars

\* The channel's handlers are registered and the channel is open.
QuizSends(s) == qsock[s].st = "ready"

\* ------------------------------------------------------- quiz: connection
\* The connection handler: guest unless the cookie names a valid session.
QuizConnect(s, isAuthenticated) ==
    /\ qsock[s].st = "new"
    /\ \A t \in QuizSockets : t < s => qsock[t].st # "new"
    /\ s = 1 => isAuthenticated
    /\ QuizCommit([QCur EXCEPT !.qsock[s] = [st |-> "ready", auth |-> isAuthenticated,
                                             lobbyCode |-> 0]])

\* ------------------------------------------------------ quiz: create_lobby
PendingOp(kind, s, settings, l, code) ==
    [kind |-> kind, s |-> s, settings |-> settings, lobby |-> l, code |-> code]

\* Up to `await flashcardsCollection.findOne`.
createLobby(Q, s, settings) ==
    IF ~Q.qsock[s].auth
    THEN QEmit(Q, {QErr(s, "Authentication required to create lobbies")})
    ELSE [Q EXCEPT !.pendingOps = @ \cup {PendingOp("create_lobby", s, settings, 0, 0)}]

\* Requests that suspend are sent only while another lobby can still be made.
CreateLobby(s, settings) ==
    /\ QuizSends(s)
    /\ Cardinality(createLobby(QCur, s, settings).pendingOps) <= MaxPending
    /\ qsock[s].auth =>
         Len(lobbyObjs) + Cardinality({op \in pendingOps : op.kind = "create_lobby"}) < MaxLobbyObjs
    /\ QuizCommit(createLobby(QCur, s, settings))

generateLobbyCode_Any(Q) == Codes

\* generateLobbyCode draws until the code has no lobby.
generateLobbyCode(Q) == {c \in Codes : Q.lobbies[c] = 0}

\* The continuation after the deck lookup (found: the deck exists and is the user's).
createLobbySettled(Q, op, found, code) ==
    LET Q0 == [Q EXCEPT !.pendingOps = @ \ {op}] IN
    IF ~found THEN QEmit(Q0, {QErr(op.s, "Deck not found or access denied")})
    ELSE LET l == Len(Q0.lobbyObjs) + 1
             host == createPlayer(op.s, TRUE)
             lobby == [code |-> code, host |-> op.s,
                       players |-> IF op.settings.hostParticipates THEN <<host>> ELSE << >>,
                       settings |-> op.settings, status |-> "waiting"]
             Q1 == [Q0 EXCEPT !.lobbyObjs = Append(@, lobby),
                              !.lobbies[code] = l,
                              !.qsock[op.s].lobbyCode = code]
         IN  broadcastLobbyUpdate(QEmit(Q1, {QEv(op.s, "lobby_created", "", code)}), l)

CreateLobbySettled(op, found, code) ==
    /\ op \in pendingOps /\ op.kind = "create_lobby"
    /\ code \in generateLobbyCode(QCur)
    /\ QuizCommit(createLobbySettled(QCur, op, found, code))

\* -------------------------------------------------------- quiz: join_lobby
joinLobby(Q, s, code) ==
    LET l == Q.lobbies[code] IN
    IF l = 0 THEN QEmit(Q, {QErr(s, "Lobby not found")})
    ELSE LET lobby == Q.lobbyObjs[l]
             canJoinLate == lobby.settings.allowLateJoin /\ lobby.status = "playing"
         IN
    IF lobby.status # "waiting" /\ ~canJoinLate
    THEN QEmit(Q, {QErr(s, "Lobby is not accepting new players")})
    ELSE IF Len(lobby.players) >= MAX_PLAYERS THEN QEmit(Q, {QErr(s, "Lobby is full")})
    ELSE IF s \in PlayerIds(lobby) THEN QEmit(Q, {QErr(s, "Already in this lobby")})
    ELSE LET Q1 == [Q EXCEPT !.lobbyObjs[l].players = Append(@, createPlayer(s, FALSE)),
                             !.qsock[s].lobbyCode = code]
             Q2 == broadcastLobbyUpdate(QEmit(Q1, {QEv(s, "lobby_joined", "", code)}), l)
             g == Q.quizGames[code]
         IN  IF lobby.status = "playing" /\ g # 0
             THEN QEmit(Q2, {QEv(s, "question", "", Q.gameObjs[g].currentQuestionIndex)})
             ELSE Q2

JoinLobby(s, code) ==
    /\ QuizSends(s)
    /\ QuizCommit(joinLobby(QCur, s, code))

\* -------------------------------------------------------- quiz: start_game
\* Up to the deck lookup; data.settings is NoSettings when absent.
startGame(Q, s, settings) ==
    LET lobbyCode == Q.qsock[s].lobbyCode IN
    IF lobbyCode = 0 \/ Q.lobbies[lobbyCode] = 0 THEN QEmit(Q, {QErr(s, "Not in a lobby")})
    ELSE LET l == Q.lobbies[lobbyCode]
             lobby == Q.lobbyObjs[l]
         IN
    IF lobby.host # s THEN QEmit(Q, {QErr(s, "Only host can start the game")})
    ELSE IF Len(lobby.players) < 1 THEN QEmit(Q, {QErr(s, "Need at least 1 player to start")})
    ELSE LET Q1 == IF settings # NoSettings THEN [Q EXCEPT !.lobbyObjs[l].settings = settings]
                   ELSE Q
         IN  [Q1 EXCEPT !.pendingOps = @ \cup {PendingOp("start_game", s, NoSettings, l, lobbyCode)}]

\* Requests that suspend are sent only while another game can still be made
\* and fewer than MaxLiveGames game objects are in use.
CanMakeGame ==
    /\ Len(gameObjs) < MaxGameObjs
    /\ Cardinality({g \in 1 .. Len(gameObjs) : gameObjs[g] # CollectedGame}) < MaxLiveGames

StartGame(s, settings) ==
    /\ QuizSends(s)
    /\ Cardinality(startGame(QCur, s, settings).pendingOps) <= MaxPending
    /\ startGame(QCur, s, settings).pendingOps # pendingOps => CanMakeGame
    /\ QuizCommit(startGame(QCur, s, settings))

\* The continuation of start_game and of restart_game after the deck lookup;
\* cards is deck.cards.length, 0 for no deck.
gameSettled(Q, op, cards) ==
    LET Q0 == [Q EXCEPT !.pendingOps = @ \ {op}] IN
    IF cards < 1 THEN QEmit(Q0, {QErr(op.s, "Invalid deck")})
    ELSE LET g == Len(Q0.gameObjs) + 1
             Q1 == [Q0 EXCEPT !.gameObjs = Append(@, NewQuizGame(op.lobby, cards)),
                              !.quizGames[op.code] = g,
                              !.lobbyObjs[op.lobby].status = "playing"]
         IN  startQuestion(broadcastLobbyUpdate(Q1, op.lobby), g)

GameSettled(op, cards) ==
    /\ op \in pendingOps /\ op.kind \in {"start_game", "restart_game"}
    /\ QuizCommit(gameSettled(QCur, op, cards))

\* ----------------------------------------------------- quiz: submit_answer
\* .filter(([key]) => ...) binds key to the first character of the user id,
\* which differs from every whole user id.
KeyDiffers(firstChar, hostUserId) == TRUE

PointsGained_Base(settings, ms) == BASE_POINTS

\* 100 + Math.floor(timeBonus * 10), in whole milliseconds: equal to the
\* double expression of the code at the elapsed times used here.
PointsGained(settings, ms) ==
    BASE_POINTS + Max(0, (1000 * settings.questionTimeLimit - ms) \div 100)

Answered(G) == {s \in QuizSockets : G.answersSubmitted[s] # NoAnswer}

AlreadySubmitted_Never(game, s) == FALSE

\* game.answersSubmitted.has(userId)
AlreadySubmitted(game, s) == game.answersSubmitted[s] # NoAnswer

submitAnswer(Q, s, selectedIndex, ms) ==
    LET lobbyCode == Q.qsock[s].lobbyCode IN
    IF lobbyCode = 0 \/ Q.quizGames[lobbyCode] = 0
    THEN QEmit(Q, {QErr(s, "Not in an active game")})
    ELSE LET g == Q.quizGames[lobbyCode]
             game == Q.gameObjs[g]
             l == game.lobby
             lobby == Q.lobbyObjs[l]
         IN
    IF AlreadySubmitted(game, s)
    THEN QEmit(Q, {QErr(s, "Already submitted answer for this question")})
    ELSE IF selectedIndex < 0 \/ selectedIndex > 3
    THEN QEmit(Q, {QErr(s, "Invalid answer index")})
    ELSE LET isCorrect == selectedIndex = CorrectIndex(game.currentQuestionIndex)
             Q1 == [Q EXCEPT !.gameObjs[g].answersSubmitted[s] = selectedIndex]
             i == FindPlayer(lobby.players, s)
             pointsGained == IF isCorrect THEN PointsGained(lobby.settings, ms) ELSE 0
         IN
    \* player is undefined: the first access to one of its fields throws
    IF i = 0 /\ (isCorrect \/ lobby.settings.resetOnIncorrect) THEN Q1
    ELSE LET Q2 == IF isCorrect
                   THEN [Q1 EXCEPT !.lobbyObjs[l].players[i].correctAnswers = @ + 1,
                                   !.lobbyObjs[l].players[i].score = @ + pointsGained]
                   ELSE IF lobby.settings.resetOnIncorrect
                   THEN [Q1 EXCEPT !.lobbyObjs[l].players[i].correctAnswers = 0]
                   ELSE Q1
             Q3 == QEmit(Q2, {QEv(s, "answer_feedback", "", pointsGained)})
             keys == {k \in Answered(Q3.gameObjs[g]) :
                        IF ~lobby.settings.hostParticipates THEN KeyDiffers(k, lobby.host)
                        ELSE TRUE}
         IN  IF Cardinality(keys) =
                  Len(lobby.players) - (IF ~lobby.settings.hostParticipates THEN 1 ELSE 0)
             THEN showQuestionResults([Q3 EXCEPT !.gameObjs[g] = clearQuestionTimer(@)], g)
             ELSE Q3

SubmitAnswer(s, selectedIndex, ms) ==
    /\ QuizSends(s)
    /\ QuizCommit(submitAnswer(QCur, s, selectedIndex, ms))

\* ------------------------------------------------------- quiz: leave_lobby
leaveLobby(Q, s) ==
    LET lobbyCode == Q.qsock[s].lobbyCode IN
    IF lobbyCode = 0 THEN Q
    ELSE LET l == Q.lobbies[lobbyCode]
             Q1 == IF l = 0 THEN Q
                   ELSE LET players == FilterPlayers(Q.lobbyObjs[l].players, QuizSockets \ {s})
                            Q2 == [Q EXCEPT !.lobbyObjs[l].players = players]
                        IN  IF Len(players) = 0
                            THEN [Q2 EXCEPT !.lobbies[lobbyCode] = 0, !.quizGames[lobbyCode] = 0]
                            ELSE broadcastLobbyUpdate(
                                   IF Q.lobbyObjs[l].host = s
                                   THEN [Q2 EXCEPT !.lobbyObjs[l].host = players[1].sid,
                                                   !.lobbyObjs[l].players[1].isHost = TRUE]
                                   ELSE Q2, l)
         IN  [Q1 EXCEPT !.qsock[s].lobbyCode = 0]

LeaveLobby(s) ==
    /\ QuizSends(s)
    /\ QuizCommit(leaveLobby(QCur, s))

\* ----------------------------------------------------- quiz: restart_game
ResetStats_Keep(player) == player

\* player.score = 0; player.correctAnswers = 0
ResetStats(player) == [player EXCEPT !.score = 0, !.correctAnswers = 0]

restartGame(Q, s) ==
    LET lobbyCode == Q.qsock[s].lobbyCode IN
    IF lobbyCode = 0 \/ Q.lobbies[lobbyCode] = 0 THEN QEmit(Q, {QErr(s, "Not in a lobby")})
    ELSE LET l == Q.lobbies[lobbyCode]
             lobby == Q.lobbyObjs[l]
         IN
    IF lobby.host # s THEN QEmit(Q, {QErr(s, "Only host can restart the game")})
    ELSE IF lobby.status # "ended" THEN QEmit(Q, {QErr(s, "Game is not ended yet")})
    ELSE [Q EXCEPT !.lobbyObjs[l].players =
                     [i \in 1 .. Len(lobby.players) |-> ResetStats(lobby.players[i])],
                   !.pendingOps = @ \cup {PendingOp("restart_game", s, NoSettings, l, lobbyCode)}]

RestartGame(s) ==
    /\ QuizSends(s)
    /\ Cardinality(restartGame(QCur, s).pendingOps) <= MaxPending
    /\ restartGame(QCur, s).pendingOps # pendingOps => CanMakeGame
    /\ QuizCommit(restartGame(QCur, s))

\* ------------------------------------------------------ quiz: kick_player
kickPlayer(Q, s, userId) ==
    LET lobbyCode == Q.qsock[s].lobbyCode IN
    IF lobbyCode = 0 \/ Q.lobbies[lobbyCode] = 0 THEN QEmit(Q, {QErr(s, "Not in a lobby")})
    ELSE LET l == Q.lobbies[lobbyCode]
             lobby == Q.lobbyObjs[l]
             k == FindPlayer(lobby.players, userId)
         IN
    IF lobby.host # s THEN QEmit(Q, {QErr(s, "Only host can kick players")})
    ELSE IF k = 0 THEN QEmit(Q, {QErr(s, "Player not found in lobby")})
    ELSE IF lobby.players[k].isHost THEN QEmit(Q, {QErr(s, "Cannot kick the host")})
    ELSE LET players == FilterPlayers(lobby.players, QuizSockets \ {userId})
             Q1 == QEmit([Q EXCEPT !.lobbyObjs[l].players = players,
                                   !.qsock[userId].lobbyCode = 0],
                         {QEv(userId, "kicked", "Kicked by host", 0)})
             g == Q.quizGames[lobbyCode]
             Q2 == IF g = 0 THEN Q1
                   ELSE LET Q3 == [Q1 EXCEPT !.gameObjs[g].answersSubmitted[userId] = NoAnswer]
                        IN  IF Cardinality(Answered(Q3.gameObjs[g])) = Len(players)
                            THEN showQuestionResults(
                                   [Q3 EXCEPT !.gameObjs[g] = clearQuestionTimer(@)], g)
                            ELSE Q3
         IN  broadcastLobbyUpdate(Q2, l)

KickPlayer(s, userId) ==
    /\ QuizSends(s)
    /\ QuizCommit(kickPlayer(QCur, s, userId))

\* -------------------------------------------------------- quiz: disconnect
quizDisconnect(Q, s) ==
    LET lobbyCode == Q.qsock[s].lobbyCode
        l == IF lobbyCode = 0 THEN 0 ELSE Q.lobbies[lobbyCode]
    IN  IF l = 0 THEN Q
        ELSE LET players == FilterPlayers(Q.lobbyObjs[l].players, QuizSockets \ {s})
                 Q2 == [Q EXCEPT !.lobbyObjs[l].players = players]
             IN  IF Len(players) = 0
                 THEN [Q2 EXCEPT !.lobbies[lobbyCode] = 0, !.quizGames[lobbyCode] = 0]
                 ELSE broadcastLobbyUpdate(
                        IF Q.lobbyObjs[l].host = s
                        THEN [Q2 EXCEPT !.lobbyObjs[l].host = players[1].sid,
                                        !.lobbyObjs[l].players[1].isHost = TRUE]
                        ELSE Q2, l)

QuizDisconnect(s) ==
    /\ QuizSends(s)
    /\ QuizCommit(quizDisconnect([QCur EXCEPT !.qsock[s].st = "closed"], s))

\* ------------------------------------------------------------ quiz: timers
\* An armed question timeout of game g fires: the one game.timer holds
\* (latest) or an earlier one that was never cleared.
QuestionTimeout(g, latest) ==
    /\ g \in 1 .. Len(gameObjs)
    /\ IF latest THEN gameObjs[g].timer /\ gameObjs[g].timersArmed > 0
       ELSE gameObjs[g].timersArmed > (IF gameObjs[g].timer THEN 1 ELSE 0)
    /\ LET G == [gameObjs[g] EXCEPT !.timersArmed = @ - 1,
                                    !.timer = IF latest THEN FALSE ELSE @]
       IN  QuizCommit(handleQuestionTimeout([QCur EXCEPT !.gameObjs[g] = G], g))

\* A pending 3-second delay of game g elapses.
NextQuestion(g) ==
    /\ g \in 1 .. Len(gameObjs)
    /\ gameObjs[g].nextPending > 0
    /\ QuizCommit(nextQuestion([QCur EXCEPT !.gameObjs[g].nextPending = @ - 1], g))

\* The runs with games: GamePlayers channels, GameCodes codes, GameLobbyObjs
\* lobbies, GamePending suspended handlers.
QuizNext ==
    \/ \E s \in 1 .. GamePlayers, a \in BOOLEAN : QuizConnect(s, a)
    \/ \E s \in QuizSockets, st \in SettingsInputs :
         /\ Cardinality(createLobby(QCur, s, st).pendingOps) <= GamePending
         /\ qsock[s].auth => Len(lobbyObjs) < GameLobbyObjs
         /\ CreateLobby(s, st)
    \/ \E op \in pendingOps, found \in BOOLEAN, code \in 1 .. GameCodes :
         CreateLobbySettled(op, found, code)
    \/ \E s \in QuizSockets, code \in 1 .. GameCodes : JoinLobby(s, code)
    \/ \E s \in QuizSockets, st \in SettingsInputs \cup {NoSettings} :
         /\ Cardinality(startGame(QCur, s, st).pendingOps) <= GamePending
         /\ StartGame(s, st)
    \/ \E op \in pendingOps, cards \in DeckInputs : GameSettled(op, cards)
    \/ \E s \in QuizSockets, i \in AnswerInputs, ms \in ElapsedInputs : SubmitAnswer(s, i, ms)
    \/ \E s \in QuizSockets : LeaveLobby(s)
    \/ \E s \in QuizSockets :
         /\ Cardinality(restartGame(QCur, s).pendingOps) <= GamePending
         /\ RestartGame(s)
    \/ \E s \in QuizSockets, u \in QuizSockets : KickPlayer(s, u)
    \/ \E s \in QuizSockets : QuizDisconnect(s)
    \/ \E g \in 1 .. MaxGameObjs, latest \in BOOLEAN : QuestionTimeout(g, latest)
    \/ \E g \in 1 .. MaxGameObjs : NextQuestion(g)

QuizSpec == Init /\ [][QuizNext]_vars

\* The runs without games: lobbies are created, joined and left.
LobbySettings == {st \in SettingsInputs : st.winCondition # "time"}

LobbyNext ==
    \/ \E s \in QuizSockets, a \in BOOLEAN : QuizConnect(s, a)
    \/ \E s \in QuizSockets, st \in LobbySettings : CreateLobby(s, st)
    \/ \E op \in pendingOps, found \in BOOLEAN, code \in Codes : CreateLobbySettled(op, found, code)
    \/ \E s \in QuizSockets, code \in Codes : JoinLobby(s, code)
    \/ \E s \in QuizSockets : LeaveLobby(s)
    \/ \E s \in QuizSockets, u \in QuizSockets : KickPlayer(s, u)
    \/ \E s \in QuizSockets : QuizDisconnect(s)

LobbySpec == Init /\ [][LobbyNext]_vars

\* The runs of one game among up to NumQuizSockets channels, the first of
\* them authenticated and the others guests: one lobby, one start_game that
\* reaches the deck, settings as given at create_lobby, answers in range.
RoundNext ==
    \/ \E s \in QuizSockets : QuizConnect(s, s = 1)
    \/ \E s \in QuizSockets, st \in LobbySettings :
         /\ Cardinality(createLobby(QCur, s, st).pendingOps) <= GamePending
         /\ qsock[s].auth => Len(lobbyObjs) < GameLobbyObjs
         /\ CreateLobby(s, st)
    \/ \E op \in pendingOps, found \in BOOLEAN, code \in 1 .. GameCodes :
         CreateLobbySettled(op, found, code)
    \/ \E s \in QuizSockets, code \in 1 .. GameCodes : JoinLobby(s, code)
    \/ \E s \in QuizSockets :
         /\ Cardinality(startGame(QCur, s, NoSettings).pendingOps) <= GamePending
         /\ startGame(QCur, s, NoSettings).pendingOps # pendingOps => Len(gameObjs) < RoundGames
         /\ StartGame(s, NoSettings)
    \/ \E op \in pendingOps, cards \in DeckInputs : GameSettled(op, cards)
    \/ \E s \in QuizSockets, i \in 0 .. 1, ms \in ElapsedInputs : SubmitAnswer(s, i, ms)
    \/ \E s \in QuizSockets : LeaveLobby(s)
    \/ \E s \in QuizSockets, u \in QuizSockets : KickPlayer(s, u)
    \/ \E s \in QuizSockets : QuizDisconnect(s)
    \/ \E g \in 1 .. RoundGames, latest \in BOOLEAN : QuestionTimeout(g, latest)
    \/ \E g \in 1 .. RoundGames : NextQuestion(g)

RoundSpec == Init /\ [][RoundNext]_vars

\* ================================================================= properties
\* In the properties below Unchanged(S) says that a handler that ended in state S
\* changed nothing, and Rejected(S, s) that all it did was to send one error
\* to channel s.
Unchanged(S) == [S EXCEPT !.emits = {}, !.end = NoEnd] = Cur

Rejected(S, s) ==
    /\ Unchanged(S)
    /\ S.end = NoEnd
    /\ \E e \in S.emits : S.emits = {e} /\ e.name = "error" /\ e.to = s

StartsOf(S) == {e \in S.emits : e.name = "start"}

\* The games channel s is a player of and that are registered.
GameOf(s) == LookupGame(Cur, s)

\* C1: in a session in phase bidding the two players never both have a
\* recorded bid; when a bid event leaves both players with recorded bids a and
\* b (both at least 60), the session is then in phase playing with whiteTime =
\* blackTime = min(a, b), no bidding timer is armed, and white and black are
\* each sent one start event, both carrying time = whiteTime = blackTime = min(a, b).
C1_BothBidsStart ==
    /\ \A g \in activeGames :
         games[g].phase = "bidding" => bid[games[g].white] = 0 \/ bid[games[g].black] = 0
    /\ \A s \in Sockets, h \in BidInputs :
         (Sends(s) /\ GameOf(s) # 0 /\ games[GameOf(s)].phase = "bidding") =>
           LET g == GameOf(s)
               S1 == bidHandler(Cur, s, h)
               a == S1.bid[games[g].white]
               b == S1.bid[games[g].black]
               m == IF a <= b THEN a ELSE b
               G1 == S1.games[g]
           IN  (a >= 60 /\ b >= 60) =>
                 /\ G1.phase = "playing"
                 /\ G1.whiteTime = m /\ G1.blackTime = m
                 /\ G1.biddingArmed = 0 /\ ~G1.biddingTimerInterval
                 /\ StartsOf(S1) = {Ev(G1.white, "start", "white", m, m, m),
                                    Ev(G1.black, "start", "black", m, m, m)}

\* C1 witness: a session started by its two players' different explicit bids,
\* before the first tick of the turn clock.
C1_Witness ==
    \E g \in activeGames :
      /\ games[g].phase = "playing" /\ games[g].biddingTimeLeft > 0 /\ games[g].plies = 0
      /\ bid[games[g].white] = 61 /\ bid[games[g].black] = 60
      /\ games[g].whiteTime = 60 /\ games[g].blackTime = 60

\* C2: the bidding timer of a session is armed only while the session is in
\* phase bidding with a bid missing, and it elapses at its 10th tick; that tick
\* sets every missing bid to 120 and leaves the session in phase playing with
\* both clocks equal to max(60, min(whiteBid, blackBid)), the bidding timer
\* cancelled and white's turn timer armed; a bid event of a player of a
\* session that is no longer in bidding is rejected with an error.
C2_BiddingTimeout ==
    /\ \A g \in GameIds :
         games[g].biddingArmed > 0 =>
           /\ g \in activeGames /\ games[g].phase = "bidding" /\ games[g].biddingArmed = 1
           /\ games[g].biddingTimeLeft \in 1 .. 10
           /\ bid[games[g].white] = 0 \/ bid[games[g].black] = 0
           /\ LET S1 == biddingTick(Cur, g)
                  G1 == S1.games[g]
                  wb == IF bid[G1.white] = 0 THEN 120 ELSE bid[G1.white]
                  bb == IF bid[G1.black] = 0 THEN 120 ELSE bid[G1.black]
                  lo == IF wb <= bb THEN wb ELSE bb
                  sel == IF lo >= 60 THEN lo ELSE 60
              IN  IF games[g].biddingTimeLeft = 1
                  THEN /\ S1.bid[G1.white] = wb /\ S1.bid[G1.black] = bb
                       /\ G1.phase = "playing"
                       /\ G1.whiteTime = sel /\ G1.blackTime = sel
                       /\ G1.biddingArmed = 0 /\ ~G1.biddingTimerInterval
                       /\ G1.turnArmed = [whiteTime |-> 1, blackTime |-> 0]
                       /\ StartsOf(S1) = {Ev(G1.white, "start", "white", sel, sel, sel),
                                          Ev(G1.black, "start", "black", sel, sel, sel)}
                  ELSE /\ G1.phase = "bidding" /\ S1.bid = bid /\ StartsOf(S1) = {}
                       /\ G1.biddingTimeLeft = games[g].biddingTimeLeft - 1
    /\ \A s \in Sockets, h \in BidInputs :
         (Sends(s) /\ sock[s].gameId # 0 /\ games[sock[s].gameId].phase # "bidding") =>
           Rejected(bidHandler(Cur, s, h), s)

\* C2 witness: a session started by the elapsed bidding window with white's
\* bid missing and black's bid of 60 recorded.
C2_Witness ==
    \E g \in activeGames :
      /\ games[g].phase = "playing" /\ games[g].biddingTimeLeft = 0 /\ games[g].plies = 0
      /\ bid[games[g].white] = 120 /\ bid[games[g].black] = 60
      /\ games[g].whiteTime = 60 /\ games[g].blackTime = 60

\* C3: a bid event whose floored value is below 60, sent by a player of a
\* session in phase bidding, is rejected: the sender gets an error and nothing
\* changes (no bid is recorded, the session stays in bidding).
C3_LowBidRejected ==
    \A s \in Sockets, h \in BidInputs :
      (/\ Sends(s) /\ GameOf(s) # 0 /\ games[GameOf(s)].phase = "bidding"
       /\ ~IsNaN(h) /\ h \div 2 < 60) =>
        Rejected(bidHandler(Cur, s, h), s)

\* C4: a bid event of a player that already has a recorded bid, in a session
\* in phase bidding, is rejected: the sender gets an error and nothing changes.
C4_SecondBidRejected ==
    \A s \in Sockets, h \in BidInputs :
      (/\ Sends(s) /\ GameOf(s) # 0 /\ games[GameOf(s)].phase = "bidding"
       /\ bid[s] # 0) =>
        Rejected(bidHandler(Cur, s, h), s)

\* The key of the clock of the colour to move in game object G, and the colour
\* that is not to move.
ToMoveKey(G) == IF G.plies % 2 = 0 THEN "whiteTime" ELSE "blackTime"

NotToMoveKey(G) == IF G.plies % 2 = 0 THEN "blackTime" ELSE "whiteTime"

NotToMove(G) == IF G.plies % 2 = 0 THEN "black" ELSE "white"

\* Channel s is the player to move of a session in phase playing.
IsMover(s) ==
    /\ Sends(s) /\ GameOf(s) # 0
    /\ games[GameOf(s)].phase = "playing"
    /\ s = (IF games[GameOf(s)].plies % 2 = 0 THEN games[GameOf(s)].white ELSE games[GameOf(s)].black)

\* C6: a session never has more than one armed timer; in phase bidding no
\* turn timer is armed; in phase playing exactly one turn timer is armed, it
\* is the one of the colour to move, and no bidding timer is armed; after an
\* accepted move every armed turn timer of the session is the one of the
\* mover's opponent (exactly one if the game goes on).
C6_TimersMatchPhase ==
    /\ \A g \in GameIds :
         LET G == games[g] IN
         /\ G.turnArmed.whiteTime + G.turnArmed.blackTime + G.biddingArmed <= 1
         /\ G.phase = "bidding" =>
              G.turnArmed = [whiteTime |-> 0, blackTime |-> 0] /\ G.timerInterval = "none"
         /\ G.phase = "playing" =>
              /\ G.turnArmed[ToMoveKey(G)] = 1 /\ G.turnArmed[NotToMoveKey(G)] = 0
              /\ G.timerInterval = ToMoveKey(G)
              /\ G.biddingArmed = 0 /\ ~G.biddingTimerInterval
    /\ \A s \in Sockets, r \in MoveResults \ {"illegal"} :
         IsMover(s) =>
           LET g == GameOf(s)
               G1 == moveHandler(Cur, s, r).games[g]
           IN  /\ G1.turnArmed[ToMoveKey(games[g])] = 0
               /\ G1.turnArmed[NotToMoveKey(games[g])] = (IF r = "none" THEN 1 ELSE 0)
               /\ G1.biddingArmed = 0

\* C6 witness: white has moved and black's turn timer is the armed one.
C6_Witness ==
    \E g \in activeGames :
      /\ games[g].phase = "playing" /\ games[g].plies = 1
      /\ games[g].turnArmed = [whiteTime |-> 0, blackTime |-> 1]
      /\ games[g].timerInterval = "blackTime" /\ games[g].biddingArmed = 0

\* What a handler that ended in state S left of the clocks of game g.
Clocks(S, g) == <<S.games[g].whiteTime, S.games[g].blackTime>>

\* C7: in phase playing a tick of the turn timer decreases the remaining time
\* of the colour to move by exactly 1 and leaves the other colour's time
\* alone; no event of a player (bid, move accepted or rejected, resign, draw
\* offer, accept or decline, disconnect) changes whiteTime or blackTime.
C7_OnlyTicksRunClocks ==
    \A g \in GameIds :
      games[g].phase = "playing" =>
        /\ \A key \in {"whiteTime", "blackTime"} :
             games[g].turnArmed[key] > 0 =>
               LET G1 == turnTick(Cur, g, key).games[g] IN
               /\ G1[ToMoveKey(games[g])] = games[g][ToMoveKey(games[g])] - 1
               /\ G1[NotToMoveKey(games[g])] = games[g][NotToMoveKey(games[g])]
        /\ \A s \in {games[g].white, games[g].black} :
             Sends(s) =>
               /\ \A h \in BidInputs : Clocks(bidHandler(Cur, s, h), g) = Clocks(Cur, g)
               /\ \A r \in MoveResults : Clocks(moveHandler(Cur, s, r), g) = Clocks(Cur, g)
               /\ Clocks(resignHandler(Cur, s), g) = Clocks(Cur, g)
               /\ Clocks(offerDrawHandler(Cur, s), g) = Clocks(Cur, g)
               /\ Clocks(acceptDrawHandler(Cur, s), g) = Clocks(Cur, g)
               /\ Clocks(declineDrawHandler(Cur, s), g) = Clocks(Cur, g)
               /\ Clocks(disconnectHandler([Cur EXCEPT !.sock[s].connected = FALSE], s), g)
                    = Clocks(Cur, g)

\* C7 witness: each colour has spent one tick of its own time.
C7_Witness ==
    \E g \in activeGames :
      /\ games[g].phase = "playing" /\ games[g].plies = 1
      /\ bid[games[g].white] = 60 /\ bid[games[g].black] = 60
      /\ games[g].whiteTime = 59 /\ games[g].blackTime = 59

\* C8: clocks never go below zero and are positive while the session is in
\* phase playing; the tick that takes the time of the colour to move to zero
\* ends the session (phase ended) with the other colour as winner and reason
\* time and leaves no turn timer armed; a session in phase ended has no armed
\* turn timer, so no later tick decrements a clock of it.
C8_TimeoutEndsGame ==
    \A g \in GameIds :
      LET G == games[g] IN
      /\ G.whiteTime >= 0 /\ G.blackTime >= 0
      /\ G.phase = "ended" =>
           G.turnArmed = [whiteTime |-> 0, blackTime |-> 0] /\ G.timerInterval = "none"
      /\ G.phase = "playing" =>
           /\ G.whiteTime > 0 /\ G.blackTime > 0
           /\ \A key \in {"whiteTime", "blackTime"} :
                G.turnArmed[key] > 0 =>
                  LET S1 == turnTick(Cur, g, key)
                      G1 == S1.games[g]
                  IN  IF G[ToMoveKey(G)] = 1
                      THEN /\ G1[ToMoveKey(G)] = 0
                           /\ G1.phase = "ended"
                           /\ S1.end = [winner |-> NotToMove(G), reason |-> "time"]
                           /\ G1.turnArmed = [whiteTime |-> 0, blackTime |-> 0]
                           /\ G1.timerInterval = "none"
                      ELSE G1.phase = "playing" /\ S1.end = NoEnd

\* C8 witness: white's clock ran out on white's first turn; the session has
\* ended once and nothing is armed.
C8_Witness ==
    \E g \in GameIds :
      /\ games[g].phase = "ended" /\ games[g].plies = 0
      /\ games[g].whiteTime = 0 /\ games[g].blackTime = 60
      /\ endCalls[g] = 1 /\ pendingEnd[g].win = 1
      /\ games[g].turnArmed = [whiteTime |-> 0, blackTime |-> 0]

\* C9: a move of the player to move that the rule engine rejects leaves the
\* whole state as it was (position, side to move, both times, pending draw
\* offer, and the turn timer armed for the same colour); all the handler does
\* is send the mover one error.
C9_RejectedMoveKeepsState ==
    \A s \in Sockets :
      IsMover(s) =>
        LET g == GameOf(s)
            S1 == moveHandler(Cur, s, "illegal")
        IN  /\ Rejected(S1, s)
            /\ S1.emits = {Err(s, "Invalid move")}
            /\ S1.games[g].timerInterval = ToMoveKey(games[g])
            /\ S1.games[g].turnArmed[ToMoveKey(games[g])] = 1
            /\ S1.games[g].turnArmed[NotToMoveKey(games[g])] = 0

\* C9 witness: black is to move with a draw offer pending and unequal clocks.
C9_Witness ==
    \E g \in activeGames :
      /\ games[g].phase = "playing" /\ games[g].plies = 1
      /\ games[g].drawOfferFrom = "black"
      /\ games[g].whiteTime = 59 /\ games[g].blackTime = 60
      /\ IsMover(games[g].black)

\* C10: an accepted move that gives checkmate ends the session with the mover
\* as winner and reason checkmate; one that ends the game otherwise ends the
\* session with no winner and reason draw; any other accepted move leaves the
\* session in phase playing with no endGame call.
C10_MoveOutcome ==
    \A s \in Sockets, r \in MoveResults \ {"illegal"} :
      IsMover(s) =>
        LET g == GameOf(s)
            S1 == moveHandler(Cur, s, r)
            mover == IF s = games[g].white THEN "white" ELSE "black"
        IN  /\ S1.games[g].plies = games[g].plies + 1
            /\ r = "checkmate" =>
                 /\ S1.end = [winner |-> mover, reason |-> "checkmate"]
                 /\ S1.games[g].phase = "ended"
            /\ r = "draw" =>
                 /\ S1.end = [winner |-> "none", reason |-> "draw"]
                 /\ S1.games[g].phase = "ended"
            /\ r = "none" =>
                 /\ S1.end = NoEnd
                 /\ S1.games[g].phase = "playing"
                 /\ g \in S1.activeGames

\* C10 witness: black has given checkmate with the second move; the session
\* has ended once.
C10_Witness ==
    \E g \in GameIds :
      /\ games[g].phase = "ended" /\ games[g].over = "checkmate" /\ games[g].plies = 2
      /\ endCalls[g] = 1 /\ pendingEnd[g].win = 1

\* C5: a player with a recorded answer for the current question of the game
\* registered under its lobby code who sends submit_answer again (any index,
\* any delay) gets exactly one error, and nothing changes: not the recorded
\* answers, no player's score or correct-answer count, no timer and no pending
\* result delay (no results are finalized); a channel that has left the lobby
\* gets an error as well.
C5_SecondAnswerRejected ==
    \A s \in QuizSockets, c \in Codes :
      (/\ QuizSends(s) /\ qsock[s].lobbyCode \in {0, c}
       /\ quizGames[c] # 0
       /\ gameObjs[quizGames[c]].answersSubmitted[s] # NoAnswer) =>
        \A i \in -1 .. 4, ms \in {0, 50, 1000, 5000} :
          LET Q1 == submitAnswer(QCur, s, i, ms) IN
          /\ [Q1 EXCEPT !.emits = {}] = QCur
          /\ \E e \in Q1.emits : Q1.emits = {e} /\ e.name = "error" /\ e.to = s

\* C5 witness: a player has answered question 0 while the other player has
\* not, so the question timer is still armed and no results are out.
C5_Witness ==
    \E s \in QuizSockets, c \in Codes :
      /\ QuizSends(s) /\ qsock[s].lobbyCode = c /\ quizGames[c] # 0
      /\ LET G == gameObjs[quizGames[c]] IN
         /\ G.answersSubmitted[s] \in 0 .. 3
         /\ G.timer /\ G.nextPending = 0
         /\ Len(lobbyObjs[G.lobby].players) = 2
         /\ \E t \in QuizSockets : G.answersSubmitted[t] = NoAnswer

\* The colour channel s plays in registered game g, and the other colour.
MyColour(g, s) == IF s = games[g].white THEN "white" ELSE "black"

OtherColour(g, s) == IF s = games[g].white THEN "black" ELSE "white"

\* Channel s is a connected player of a registered session in the given phase.
PlayerIn(s, phase) == Sends(s) /\ GameOf(s) # 0 /\ games[GameOf(s)].phase = phase

\* A handler that ended in state S ended game g through endGame with the
\* given winner colour and reason: the game object is in phase ended with no
\* timer armed or held.
EndedBy(S, g, wc, reason) ==
    /\ S.end = [winner |-> wc, reason |-> reason]
    /\ S.games[g].phase = "ended"
    /\ S.games[g].turnArmed = [whiteTime |-> 0, blackTime |-> 0]
    /\ S.games[g].biddingArmed = 0
    /\ S.games[g].timerInterval = "none"
    /\ S.endCalls[g] = endCalls[g] + 1

\* C11: an accept_draw event of a player of a session ends the session with
\* no winner and reason draw_agreed (phase ended, removed from the registry,
\* a draw event to each connected player) exactly when the session is playing
\* and an offer of the opposite colour is pending; when no offer is pending,
\* when the pending offer is the sender's own, or when the session is not
\* playing, the sender gets an error and nothing changes.
C11_AcceptDraw ==
    \A s \in Sockets :
      (Sends(s) /\ GameOf(s) # 0) =>
        LET g == GameOf(s)
            S1 == acceptDrawHandler(Cur, s)
        IN  IF games[g].phase = "playing" /\ games[g].drawOfferFrom = OtherColour(g, s)
            THEN /\ EndedBy(S1, g, "none", "draw_agreed")
                 /\ g \notin S1.activeGames
                 /\ S1.pendingEnd[g] = [win |-> 0, loss |-> 0]
                 /\ S1.emits = {Ev(t, "draw", "draw_agreed", 0, 0, 0) :
                                  t \in {u \in {games[g].white, games[g].black} : sock[u].connected}}
            ELSE Rejected(S1, s)

\* C11 witness: a playing session in which white's offer is pending and black
\* is able to answer it.
C11_Witness ==
    \E s \in Sockets :
      /\ PlayerIn(s, "playing") /\ Awake(s)
      /\ s = games[GameOf(s)].black
      /\ games[GameOf(s)].drawOfferFrom = "white"
      /\ games[GameOf(s)].plies = 1

\* What a handler that ended in state S left of the pending draw offer of game g.
OfferOf(S, g) == S.games[g].drawOfferFrom

\* A handler that ended in state S changed nothing but the pending draw offer
\* of game g, which is now c.
OnlyOffer(S, g, c) ==
    [S EXCEPT !.emits = {}, !.end = NoEnd] = [Cur EXCEPT !.games[g].drawOfferFrom = c]

C13_ResignDisconnect ==
    \A s \in Sockets :
      /\ PlayerIn(s, "playing") =>
           LET g == GameOf(s)
               R == resignHandler(Cur, s)
               D == disconnectHandler([Cur EXCEPT !.sock[s].connected = FALSE], s)
               other == IF s = games[g].white THEN games[g].black ELSE games[g].white
           IN  /\ EndedBy(R, g, OtherColour(g, s), "resignation")
               /\ R.emits = {Ev(t, "win", "resignation", other, 0, 0) :
                               t \in {u \in {games[g].white, games[g].black} : sock[u].connected}}
               /\ EndedBy(D, g, OtherColour(g, s), "opponent disconnected")
               /\ D.emits = {Ev(t, "win", "opponent disconnected", other, 0, 0) :
                               t \in {u \in {other} : sock[u].connected}}
      /\ PlayerIn(s, "bidding") => Rejected(resignHandler(Cur, s), s)

\* C13 witness: a session ended before any move or tick with both players
\* still connected and the winner's statistics update pending: a resignation.
C13_Witness ==
    \E g \in activeGames :
      /\ games[g].phase = "ended" /\ games[g].plies = 0
      /\ games[g].whiteTime = 60 /\ games[g].blackTime = 60
      /\ sock[games[g].white].connected /\ sock[games[g].black].connected
      /\ endCalls[g] = 1 /\ pendingEnd[g] = [win |-> 1, loss |-> 0]

\* C14: when a player of a session in phase bidding disconnects, the bidding
\* timer is cancelled and the session leaves the registry without an endGame
\* call and without a win or draw event; the other player, if connected, is
\* sent opponent_disconnected, loses its session reference and is appended to
\* the end of the waiting queue.
C14_DisconnectInBidding ==
    \A s \in Sockets :
      PlayerIn(s, "bidding") =>
        LET g == GameOf(s)
            D == disconnectHandler([Cur EXCEPT !.sock[s].connected = FALSE], s)
            other == IF s = games[g].white THEN games[g].black ELSE games[g].white
        IN  /\ D.end = NoEnd /\ D.endCalls = endCalls /\ D.pendingEnd = pendingEnd
            /\ g \notin D.activeGames
            /\ D.games[g].biddingArmed = 0 /\ ~D.games[g].biddingTimerInterval
            /\ D.games[g].turnArmed = [whiteTime |-> 0, blackTime |-> 0]
            /\ D.games[g].phase = "bidding"
            /\ IF sock[other].connected
               THEN /\ D.emits = {Ev(other, "opponent_disconnected", "", 0, 0, 0)}
                    /\ D.waitingQueue = waitingQueue \o <<other>>
                    /\ D.sock[other].gameId = 0
               ELSE D.emits = {} /\ D.waitingQueue = waitingQueue

\* C14 witness: the only session made so far is gone and one of its players
\* is connected and waiting in the queue again, the other one having left.
C14_Witness ==
    \E t \in Sockets :
      /\ Len(games) = 1 /\ activeGames = {} /\ endCalls[1] = 0
      /\ waitingQueue = <<t>>
      /\ sock[t].connected /\ sock[t].gameId = 0
      /\ \E u \in Sockets \ {t} : sock[u].st = "ready" /\ ~sock[u].connected

\* The ends of the handlers that can end the session of channel s.
EndingsOf(s) ==
    {moveHandler(Cur, s, r) : r \in MoveResults}
      \cup {resignHandler(Cur, s), acceptDrawHandler(Cur, s),
            disconnectHandler([Cur EXCEPT !.sock[s].connected = FALSE], s)}

C15_State ==
    /\ \A g \in GameIds :
         /\ games[g].phase = "ended" =>
              /\ games[g].turnArmed = [whiteTime |-> 0, blackTime |-> 0]
              /\ games[g].biddingArmed = 0 /\ games[g].timerInterval = "none"
              /\ g \in activeGames => pendingEnd[g].win + pendingEnd[g].loss > 0
         /\ \A key \in {"whiteTime", "blackTime"} :
              games[g].turnArmed[key] > 0 =>
                LET T == turnTick(Cur, g, key)
                IN  T.end # NoEnd => EndedBy(T, g, T.end.winner, "time")
         /\ \A stage \in {"win", "loss"}, ok \in BOOLEAN :
              pendingEnd[g][stage] > 0 =>
                LET S1 == statsSettled(Cur, g, stage, ok)
                IN  IF stage = "win" /\ ok
                    THEN S1.pendingEnd[g].loss > 0
                    ELSE g \notin S1.activeGames
    /\ \A s \in Sockets :
         (Sends(s) /\ GameOf(s) # 0) =>
           LET g == GameOf(s) IN
           /\ \A E \in EndingsOf(s) :
                E.end # NoEnd =>
                  /\ EndedBy(E, g, E.end.winner, E.end.reason)
                  /\ E.end.reason \in {"checkmate", "draw", "draw_agreed", "resignation",
                                       "opponent disconnected"}
                  /\ E.end.winner = "none" => g \notin E.activeGames
                  /\ E.end.winner # "none" => E.pendingEnd[g].win > 0
           /\ games[g].phase = "ended" =>
                /\ \A h \in BidInputs : Rejected(bidHandler(Cur, s, h), s)
                /\ \A r \in MoveResults : Rejected(moveHandler(Cur, s, r), s)
                /\ Rejected(resignHandler(Cur, s), s)
                /\ Rejected(offerDrawHandler(Cur, s), s)
                /\ Rejected(acceptDrawHandler(Cur, s), s)
                /\ Rejected(declineDrawHandler(Cur, s), s)

C15_Step ==
    \A g \in GameIds :
      games'[g].phase # games[g].phase =>
        \/ games[g].phase = "bidding" /\ games'[g].phase = "playing"
        \/ games[g].phase = "playing" /\ games'[g].phase = "ended"
        \/ games'[g].phase = "collected"

\* A registered session in phase ended is eventually out of the registry.
C15_Removed ==
    \A g \in 1 .. NumSockets \div 2 :
      (g \in GameIds /\ g \in activeGames /\ games[g].phase = "ended") ~> (g \notin activeGames)

\* C15: every ending of a session (checkmate, draw, draw_agreed, time,
\* resignation, opponent disconnected) leaves its Game object in phase ended
\* with no timer armed; a session in phase ended is registered only while a
\* statistics update of its endGame is outstanding, and the settlement of that
\* update, resolved or rejected, is followed by the removal (after at most one
\* more update), so an ended session is eventually removed; the phase of a
\* Game object changes only from bidding to playing and from playing to ended;
\* bid, move, resign, offer_draw, accept_draw and decline_draw events of a
\* player of a session in phase ended get an error and change nothing.
C15_Safe == []C15_State /\ [][C15_Step]_vars

C15_TerminalTransitions == C15_Safe /\ C15_Removed

\* C15 witness: an ended session whose winner's statistics are written and
\* whose second statistics update is outstanding; it is still registered.
C15_Witness ==
    \E g \in activeGames :
      /\ games[g].phase = "ended"
      /\ statWrites[g] = [win |-> 1, loss |-> 0]
      /\ pendingEnd[g] = [win |-> 0, loss |-> 1]

QuizRejected(Q, s) ==
    /\ [Q EXCEPT !.emits = {}] = QCur
    /\ \E e \in Q.emits : Q.emits = {e} /\ e.name = "error" /\ e.to = s

\* The codes that have a lobby in the lobbies map.
LiveCodes == {c \in Codes : lobbies[c] # 0}

\* The channels of a player list, in list order.
SidsOf(ps) == [i \in 1 .. Len(ps) |-> ps[i].sid]

\* C17: every entry of the lobbies map holds a lobby object that carries the
\* entry's code, and no lobby object is held under two codes, so two live
\* lobbies never have the same code; the continuation of a create_lobby after
\* its deck lookup draws a code that has no lobby at that moment, registers
\* the new lobby under it and leaves every other entry as it was; every code
\* without a lobby (never used, or of a deleted lobby) can be drawn.
C17_UniqueCodes ==
    /\ \A c \in LiveCodes :
         /\ lobbies[c] \in 1 .. Len(lobbyObjs)
         /\ lobbyObjs[lobbies[c]].code = c
         /\ \A d \in LiveCodes : lobbies[d] = lobbies[c] => d = c
    /\ \A c \in Codes \ LiveCodes : c \in generateLobbyCode(QCur)
    /\ \A op \in pendingOps, code \in generateLobbyCode(QCur) :
         op.kind = "create_lobby" =>
           LET Q1 == createLobbySettled(QCur, op, TRUE, code)
               l == Len(lobbyObjs) + 1
           IN  /\ code \notin LiveCodes
               /\ Q1.lobbies = [c \in Codes |-> IF c = code THEN l ELSE lobbies[c]]
               /\ Len(Q1.lobbyObjs) = l /\ Q1.lobbyObjs[l].code = code
               /\ \A k \in 1 .. Len(lobbyObjs) : Q1.lobbyObjs[k] = lobbyObjs[k]

\* C17 witness: two live lobbies, under the codes 1 and 2, and a create_lobby
\* channel in each of them.
C17_Witness ==
    /\ LiveCodes = {1, 2} /\ lobbies[1] # lobbies[2]
    /\ \E s, t \in QuizSockets :
         /\ s # t /\ qsock[s].auth /\ qsock[t].auth
         /\ lobbyObjs[lobbies[1]].host = s /\ lobbyObjs[lobbies[2]].host = t

\* C18: the host of a live lobby with a non-empty player list is one of the
\* lobby's players.
C18_HostIsMember ==
    \A c \in LiveCodes :
      LET L == lobbyObjs[lobbies[c]] IN
      Len(L.players) > 0 => \E i \in 1 .. Len(L.players) : L.players[i].sid = L.host

\* A player list filled up to n players with players of other channels.
Padded(ps, n) ==
    ps \o [i \in 1 .. n - Len(ps) |->
             [sid |-> 100 + i, score |-> 0, correctAnswers |-> 0, isHost |-> FALSE]]

\* What join_lobby of channel s with the given code has to find to add s.
Joinable(Q, s, code) ==
    /\ Q.lobbies[code] # 0
    /\ LET L == Q.lobbyObjs[Q.lobbies[code]] IN
       /\ L.status = "waiting" \/ (L.status = "playing" /\ L.settings.allowLateJoin)
       /\ Len(L.players) < 50
       /\ \A i \in 1 .. Len(L.players) : L.players[i].sid # s

\* join_lobby of channel s, sent in state Q, did what C19 says.
JoinAsClaimed(Q, s, code) ==
    LET J == joinLobby(Q, s, code) IN
    IF Joinable(Q, s, code)
    THEN LET l == Q.lobbies[code] IN
         /\ J.lobbyObjs[l] =
              [Q.lobbyObjs[l] EXCEPT !.players =
                 Append(@, [sid |-> s, score |-> 0, correctAnswers |-> 0, isHost |-> FALSE])]
         /\ \A k \in 1 .. Len(Q.lobbyObjs) : k # l => J.lobbyObjs[k] = Q.lobbyObjs[k]
         /\ J.lobbies = Q.lobbies /\ J.quizGames = Q.quizGames /\ J.gameObjs = Q.gameObjs
         /\ J.qsock = [Q.qsock EXCEPT ![s].lobbyCode = code]
         /\ \A e \in J.emits : e.name # "error"
         /\ QEv(s, "lobby_joined", "", code) \in J.emits
    ELSE /\ [J EXCEPT !.emits = {}] = Q
         /\ \E e \in J.emits : J.emits = {e} /\ e.name = "error" /\ e.to = s

\* C19: join_lobby appends the joiner (score 0, not host) to the player list
\* of the lobby the code names and changes nothing else of the lobbies and
\* games, if the code names a live lobby, the lobby is waiting or is playing
\* with allowLateJoin, it has fewer than 50 players and the joiner is not in
\* the list; otherwise the joiner gets one error and nothing changes, also
\* when the lobby holds 50 players already (the 50th player is still let in);
\* no live lobby has more than 50 players or one channel twice in its list.
C19_JoinLobby ==
    /\ \A s \in QuizSockets, code \in Codes :
         QuizSends(s) =>
           /\ JoinAsClaimed(QCur, s, code)
           /\ lobbies[code] # 0 =>
                \A n \in {49, 50} :
                  JoinAsClaimed([QCur EXCEPT !.lobbyObjs[lobbies[code]].players = Padded(@, n)],
                                s, code)
    /\ \A c \in LiveCodes :
         LET ps == lobbyObjs[lobbies[c]].players IN
         /\ Len(ps) <= 50
         /\ \A i, j \in 1 .. Len(ps) : ps[i].sid = ps[j].sid => i = j

\* C19 witness: a lobby whose game is running and that lets players join
\* late, with a player in it, and an open channel that is not in its list.
C19_Witness ==
    \E c \in LiveCodes, s \in QuizSockets :
      LET L == lobbyObjs[lobbies[c]] IN
      /\ L.status = "playing" /\ L.settings.allowLateJoin /\ quizGames[c] # 0
      /\ Len(L.players) = 1 /\ L.players[1].sid # s
      /\ QuizSends(s)

QuizGameOf(s) == IF qsock[s].lobbyCode = 0 THEN 0 ELSE quizGames[qsock[s].lobbyCode]

\* The lobby object under the lobbyCode of channel s, 0 for none.
LobbyOf(s) == IF qsock[s].lobbyCode = 0 THEN 0 ELSE lobbies[qsock[s].lobbyCode]

\* The names of the events a quiz handler that ended in state Q sent.
NamesOf(Q) == {e.name : e \in Q.emits}

\* A quiz handler that ended in state Q finalized the question of game g: the
\* timer game.timer held is cancelled, the results went out and one more
\* advance delay is pending.
Finalized(Q, g) ==
    /\ ~Q.gameObjs[g].timer
    /\ Q.gameObjs[g].timersArmed = gameObjs[g].timersArmed - 1
    /\ Q.gameObjs[g].nextPending = gameObjs[g].nextPending + 1
    /\ "question_results" \in NamesOf(Q) \/ Q.lobbyObjs[gameObjs[g].lobby].players = << >>

\* It left the timer armed and sent no results.
NotFinalized(Q, g) ==
    /\ Q.gameObjs[g].timer
    /\ Q.gameObjs[g].timersArmed = gameObjs[g].timersArmed
    /\ Q.gameObjs[g].nextPending = gameObjs[g].nextPending
    /\ "question_results" \notin NamesOf(Q)

\* C21: when the host of a lobby kicks one of its players while a question of
\* the lobby's game is open (its timer armed), the player leaves the list and
\* has no recorded answer any more; with at least one player remaining, the
\* question is finalized by the kick if every remaining player has a recorded
\* answer, and otherwise the timer stays armed and no results are sent.
C21_KickDuringQuestion ==
    \A s \in QuizSockets, u \in QuizSockets :
      (/\ QuizSends(s) /\ LobbyOf(s) # 0 /\ QuizGameOf(s) # 0
       /\ lobbyObjs[LobbyOf(s)].host = s
       /\ gameObjs[QuizGameOf(s)].lobby = LobbyOf(s)
       /\ gameObjs[QuizGameOf(s)].timer
       /\ \E i \in 1 .. Len(lobbyObjs[LobbyOf(s)].players) :
            lobbyObjs[LobbyOf(s)].players[i].sid = u /\ ~lobbyObjs[LobbyOf(s)].players[i].isHost
       /\ \E i \in 1 .. Len(lobbyObjs[LobbyOf(s)].players) :
            lobbyObjs[LobbyOf(s)].players[i].sid # u) =>
        LET l == LobbyOf(s)
            g == QuizGameOf(s)
            rest == SelectSeq(lobbyObjs[l].players, LAMBDA p : p.sid # u)
            K == kickPlayer(QCur, s, u)
        IN  /\ K.lobbyObjs[l].players = rest
            /\ K.gameObjs[g].answersSubmitted[u] = NoAnswer
            /\ IF \A i \in 1 .. Len(rest) : gameObjs[g].answersSubmitted[rest[i].sid] # NoAnswer
               THEN Finalized(K, g)
               ELSE NotFinalized(K, g)

\* restart_game of channel s passes its three tests: s is in a registered lobby,
\* is its host, and the lobby has ended.
MayRestart(s) ==
    /\ LobbyOf(s) # 0
    /\ lobbyObjs[LobbyOf(s)].host = s
    /\ lobbyObjs[LobbyOf(s)].status = "ended"

\* C22: restart_game takes effect only when the lobby's host sends it while the
\* lobby status is ended: every player's score and correct-answer count is then
\* zero, and once the deck is found a new game at question index 0 is
\* registered under the lobby's code and the status is playing; any other
\* restart_game is answered by one error and changes nothing.
C22_RestartGame ==
    \A s \in QuizSockets : QuizSends(s) =>
      LET R == restartGame(QCur, s) IN
      IF MayRestart(s)
      THEN LET l == LobbyOf(s)
               code == qsock[s].lobbyCode
           IN  /\ SidsOf(R.lobbyObjs[l].players) = SidsOf(lobbyObjs[l].players)
               /\ \A i \in 1 .. Len(R.lobbyObjs[l].players) :
                    /\ R.lobbyObjs[l].players[i].score = 0
                    /\ R.lobbyObjs[l].players[i].correctAnswers = 0
               /\ "error" \notin NamesOf(R)
               /\ \E op \in R.pendingOps :
                    /\ op.kind = "restart_game" /\ op.lobby = l /\ op.code = code
                    /\ R.pendingOps = pendingOps \cup {op}
                    /\ \A cards \in 1 .. MaxQuestions :
                         LET S == gameSettled(R, op, cards)
                             g == S.quizGames[code]
                         IN  /\ g = Len(gameObjs) + 1
                             /\ Len(S.gameObjs) = g
                             /\ S.gameObjs[g].lobby = l
                             /\ S.gameObjs[g].currentQuestionIndex = 0
                             /\ S.gameObjs[g].nq = cards
                             /\ \A t \in QuizSockets : S.gameObjs[g].answersSubmitted[t] = NoAnswer
                             /\ S.lobbyObjs[l].status = "playing"
                             /\ S.lobbyObjs[l].players = R.lobbyObjs[l].players
      ELSE QuizRejected(R, s)

\* The host of an ended lobby in which a player has scored can send
\* restart_game, and so can a channel that is not the host of its lobby and the
\* host of a lobby that is playing.
C22_Witness ==
    /\ \E s \in QuizSockets :
         /\ QuizSends(s) /\ MayRestart(s)
         /\ \E i \in 1 .. Len(lobbyObjs[LobbyOf(s)].players) :
              /\ lobbyObjs[LobbyOf(s)].players[i].score >= BASE_POINTS
              /\ lobbyObjs[LobbyOf(s)].players[i].correctAnswers >= 1
    /\ \E s \in QuizSockets :
         /\ QuizSends(s) /\ LobbyOf(s) # 0 /\ lobbyObjs[LobbyOf(s)].host # s
         /\ lobbyObjs[LobbyOf(s)].status = "ended"

\* The channels of the players of lobby object L that count for the end of a
\* question: all of them, without the host when hostParticipates is false.
Eligible(L) ==
    {L.players[i].sid : i \in 1 .. Len(L.players)} \
      (IF L.settings.hostParticipates THEN {} ELSE {L.host})

\* C23: when a player of the lobby submits an answer that is accepted while
\* the question is open, the question is finalized by that answer exactly when
\* every eligible player of the lobby (the host left out when hostParticipates
\* is false) has then answered; otherwise the timer stays armed and no results
\* are sent.
C23_FinalizeOnLastAnswer ==
    \A s \in QuizSockets, selectedIndex \in 0 .. 3 :
      (/\ QuizSends(s) /\ LobbyOf(s) # 0 /\ QuizGameOf(s) # 0
       /\ gameObjs[QuizGameOf(s)].lobby = LobbyOf(s)
       /\ gameObjs[QuizGameOf(s)].timer
       /\ gameObjs[QuizGameOf(s)].answersSubmitted[s] = NoAnswer
       /\ FindPlayer(lobbyObjs[LobbyOf(s)].players, s) # 0) =>
        LET g == QuizGameOf(s)
            eligible == Eligible(lobbyObjs[LobbyOf(s)])
            answered == {t \in eligible : t = s \/ gameObjs[g].answersSubmitted[t] # NoAnswer}
            A == submitAnswer(QCur, s, selectedIndex, 50)
        IN  /\ A.gameObjs[g].answersSubmitted[s] = selectedIndex
            /\ IF answered = eligible THEN Finalized(A, g) ELSE NotFinalized(A, g)

\* The points of a correct answer given ms milliseconds after the start of a
\* question with a limit of one second.
PointsAfter == (0 :> 110) @@ (50 :> 109) @@ (999 :> 100) @@ (1000 :> 100) @@ (5000 :> 100)

\* What one accepted answer changes, for every channel that can send one.
C24_State ==
    \A s \in QuizSockets, selectedIndex \in 0 .. 3, ms \in DOMAIN PointsAfter :
      (/\ QuizSends(s) /\ LobbyOf(s) # 0 /\ QuizGameOf(s) # 0
       /\ gameObjs[QuizGameOf(s)].lobby = LobbyOf(s)
       /\ gameObjs[QuizGameOf(s)].currentQuestionIndex < gameObjs[QuizGameOf(s)].nq
       /\ gameObjs[QuizGameOf(s)].answersSubmitted[s] = NoAnswer
       /\ lobbyObjs[LobbyOf(s)].settings.questionTimeLimit = 1) =>
        LET l == LobbyOf(s)
            g == QuizGameOf(s)
            before == lobbyObjs[l].players
            after == submitAnswer(QCur, s, selectedIndex, ms).lobbyObjs[l].players
        IN  /\ Len(after) = Len(before)
            /\ \A m \in 1 .. Len(lobbyObjs) :
                 m # l => submitAnswer(QCur, s, selectedIndex, ms).lobbyObjs[m] = lobbyObjs[m]
            /\ \A i \in 1 .. Len(before) :
                 IF before[i].sid # s \/ \E j \in 1 .. i - 1 : before[j].sid = s
                 THEN after[i] = before[i]
                 ELSE /\ after[i].sid = s /\ after[i].isHost = before[i].isHost
                      /\ IF selectedIndex = gameObjs[g].currentQuestionIndex % 4
                         THEN /\ after[i].correctAnswers = before[i].correctAnswers + 1
                              /\ after[i].score = before[i].score + PointsAfter[ms]
                              /\ after[i].score >= before[i].score + 100
                         ELSE /\ after[i].score = before[i].score
                              /\ after[i].correctAnswers =
                                   IF lobbyObjs[l].settings.resetOnIncorrect THEN 0
                                   ELSE before[i].correctAnswers

\* While one game stays registered for a lobby, no player of the lobby loses
\* score in a step.
C24_Step ==
    \A l \in 1 .. Len(lobbyObjs) :
      (/\ l <= Len(lobbyObjs') /\ lobbyObjs[l].code # 0 /\ lobbyObjs'[l].code = lobbyObjs[l].code
       /\ quizGames[lobbyObjs[l].code] # 0
       /\ quizGames'[lobbyObjs[l].code] = quizGames[lobbyObjs[l].code]
       /\ gameObjs[quizGames[lobbyObjs[l].code]].lobby = l) =>
        \A i \in 1 .. Len(lobbyObjs[l].players), j \in 1 .. Len(lobbyObjs'[l].players) :
          lobbyObjs'[l].players[j].sid = lobbyObjs[l].players[i].sid =>
            lobbyObjs'[l].players[j].score >= lobbyObjs[l].players[i].score

\* C24: an accepted answer changes only the submitter's entry: a correct one
\* adds 1 to the correct-answer count and 100 + floor(max(0, questionTimeLimit
\* - elapsedSeconds) * 10) >= 100 to the score, an incorrect one leaves the
\* score and sets the count to 0 when resetOnIncorrect is set and leaves it
\* otherwise; and while a game is registered no player's score decreases.
C24_Scoring == []C24_State /\ [][C24_Step]_vars

\* C24 witness: on the second question of a game with resetOnIncorrect, a player
\* with a correct answer and its points behind it has yet to answer.
C24_Witness ==
    \E s \in QuizSockets :
      /\ QuizSends(s) /\ LobbyOf(s) # 0 /\ QuizGameOf(s) # 0
      /\ gameObjs[QuizGameOf(s)].lobby = LobbyOf(s)
      /\ gameObjs[QuizGameOf(s)].currentQuestionIndex = 1
      /\ gameObjs[QuizGameOf(s)].nq = 2
      /\ gameObjs[QuizGameOf(s)].timer
      /\ gameObjs[QuizGameOf(s)].answersSubmitted[s] = NoAnswer
      /\ lobbyObjs[LobbyOf(s)].settings.resetOnIncorrect
      /\ lobbyObjs[LobbyOf(s)].settings.questionTimeLimit = 1
      /\ \E i \in 1 .. Len(lobbyObjs[LobbyOf(s)].players) :
           /\ lobbyObjs[LobbyOf(s)].players[i].sid = s
           /\ lobbyObjs[LobbyOf(s)].players[i].correctAnswers = 1
           /\ lobbyObjs[LobbyOf(s)].players[i].score = 109

\* The state after the question timer that game.timer of game g holds has fired.
AfterTimeout(g) ==
    handleQuestionTimeout(
      [QCur EXCEPT !.gameObjs[g].timersArmed = @ - 1, !.gameObjs[g].timer = FALSE], g)

\* C25: when the question timer of a game fires, every player of its lobby
\* without an answer to the current question is recorded with index -1, is
\* reported in the results with index -1, as incorrect and with the score it
\* had; the answers already submitted stay as they were and no score changes.
C25_QuestionTimeout ==
    \A g \in 1 .. Len(gameObjs) :
      (/\ gameObjs[g].timer /\ gameObjs[g].timersArmed > 0
       /\ Len(lobbyObjs[gameObjs[g].lobby].players) > 0) =>
        LET ps == lobbyObjs[gameObjs[g].lobby].players
            was == gameObjs[g].answersSubmitted
            T == AfterTimeout(g)
        IN  /\ T.lobbyObjs = lobbyObjs
            /\ \A s \in QuizSockets :
                 T.gameObjs[g].answersSubmitted[s] =
                   IF was[s] = NoAnswer /\ \E i \in 1 .. Len(ps) : ps[i].sid = s
                   THEN 0 - 1 ELSE was[s]
            /\ \A i \in 1 .. Len(ps) :
                 \E e \in T.emits :
                   /\ e.name = "question_results" /\ e.to = ps[i].sid
                   /\ Len(e.data) = Len(ps)
                   /\ e.data[i].sid = ps[i].sid
                   /\ e.data[i].score = ps[i].score
                   /\ IF was[ps[i].sid] = NoAnswer
                      THEN e.data[i].selectedIndex = 0 - 1 /\ ~e.data[i].isCorrect
                      ELSE e.data[i].selectedIndex = was[ps[i].sid]

\* C25 witness: the timer of a question is armed while one player of the lobby
\* has answered it and another has not.
C25_Witness ==
    \E g \in 1 .. Len(gameObjs) :
      /\ gameObjs[g].timer /\ gameObjs[g].timersArmed > 0
      /\ \E i, j \in 1 .. Len(lobbyObjs[gameObjs[g].lobby].players) :
           /\ gameObjs[g].answersSubmitted[lobbyObjs[gameObjs[g].lobby].players[i].sid] = NoAnswer
           /\ gameObjs[g].answersSubmitted[lobbyObjs[gameObjs[g].lobby].players[j].sid] \in 0 .. 3
           /\ lobbyObjs[gameObjs[g].lobby].players[j].score >= BASE_POINTS

\* The present state with b more correct answers, and their base points, on
\* the record of player k of the lobby of game g (nobody's for k = 0).
Boosted(g, k, b) ==
    IF k = 0 THEN QCur
    ELSE [QCur EXCEPT !.lobbyObjs[gameObjs[g].lobby].players[k].correctAnswers = @ + b,
                      !.lobbyObjs[gameObjs[g].lobby].players[k].score = @ + b * BASE_POINTS]

\* The state after a pending advance delay of game g has elapsed in state Q.
AfterDelay(Q, g) == nextQuestion([Q EXCEPT !.gameObjs[g].nextPending = @ - 1], g)

\* nextQuestion, ending in state Q, ended game g for the given reason.
EndedFor(Q, g, reason) ==
    /\ Q.lobbyObjs[gameObjs[g].lobby].status = "ended"
    /\ ~Q.gameObjs[g].timer
    /\ "question" \notin NamesOf(Q)
    /\ \A i \in 1 .. Len(lobbyObjs[gameObjs[g].lobby].players) :
         \E e \in Q.emits :
           /\ e.name = "game_ended" /\ e.msg = reason
           /\ e.to = lobbyObjs[gameObjs[g].lobby].players[i].sid
    /\ \A e \in Q.emits : e.name = "game_ended" /\ e.msg = reason

\* nextQuestion, ending in state Q, started the question after the current one.
StartedNext(Q, g) ==
    /\ Q.lobbyObjs[gameObjs[g].lobby].status = lobbyObjs[gameObjs[g].lobby].status
    /\ Q.gameObjs[g].timer
    /\ Q.gameObjs[g].timersArmed = gameObjs[g].timersArmed + 1
    /\ \A s \in QuizSockets : Q.gameObjs[g].answersSubmitted[s] = NoAnswer
    /\ "game_ended" \notin NamesOf(Q)
    /\ \A i \in 1 .. Len(lobbyObjs[gameObjs[g].lobby].players) :
         \E e \in Q.emits :
           /\ e.name = "question" /\ e.n = gameObjs[g].currentQuestionIndex + 1
           /\ e.to = lobbyObjs[gameObjs[g].lobby].players[i].sid

\* C26: the advance after a question adds one to the question index; with the
\* questions exhausted the game ends with all_questions_completed, whatever
\* the thresholds; otherwise it ends with correct_answers_threshold_reached
\* under correct_answers iff some player's correct count has reached the
\* threshold, with score_threshold_reached under score iff some player's score
\* has reached the threshold, and under time no test is made; a game that does
\* not end starts its next question. Checked for the players' records as they
\* are and with up to two more correct answers on one of them.
C26_NextQuestion ==
    \A g \in 1 .. Len(gameObjs) : gameObjs[g].nextPending > 0 =>
      \A k \in 0 .. Len(lobbyObjs[gameObjs[g].lobby].players), b \in 0 .. 2 :
        LET Q0 == Boosted(g, k, b)
            N == AfterDelay(Q0, g)
            L == Q0.lobbyObjs[gameObjs[g].lobby]
            reached(key, threshold) == \E i \in 1 .. Len(L.players) : L.players[i][key] >= threshold
        IN  /\ N.gameObjs[g].currentQuestionIndex = gameObjs[g].currentQuestionIndex + 1
            /\ N.gameObjs[g].nextPending = gameObjs[g].nextPending - 1
            /\ N.lobbyObjs[gameObjs[g].lobby].players = L.players
            /\ IF gameObjs[g].currentQuestionIndex + 1 >= gameObjs[g].nq
               THEN EndedFor(N, g, "all_questions_completed")
               ELSE IF L.settings.winCondition = "correct_answers"
               THEN IF reached("correctAnswers", L.settings.correctAnswersThreshold)
                    THEN EndedFor(N, g, "correct_answers_threshold_reached")
                    ELSE StartedNext(N, g)
               ELSE IF L.settings.winCondition = "score"
               THEN IF reached("score", L.settings.scoreThreshold)
                    THEN EndedFor(N, g, "score_threshold_reached")
                    ELSE StartedNext(N, g)
               ELSE StartedNext(N, g)

\* C26 witness: an advance delay is pending after the first of two questions
\* of a score game in which the second player alone has reached the threshold.
C26_Witness ==
    \E g \in 1 .. Len(gameObjs) :
      /\ gameObjs[g].nextPending > 0 /\ gameObjs[g].nq = 2
      /\ gameObjs[g].currentQuestionIndex = 0
      /\ lobbyObjs[gameObjs[g].lobby].settings.winCondition = "score"
      /\ Len(lobbyObjs[gameObjs[g].lobby].players) = 2
      /\ lobbyObjs[gameObjs[g].lobby].players[1].score = 0
      /\ lobbyObjs[gameObjs[g].lobby].players[2].score >= 100

\* C27: a game under win condition time ends once timeLimit seconds have
\* passed since its start, even with questions left: each advance delay ran
\* RESULT_DELAY seconds, so a game registered for a lobby under time has taken
\* fewer advances than fill timeLimit seconds.
C27_TimeUp ==
    \A code \in Codes :
      (/\ quizGames[code] # 0 /\ lobbies[code] # 0
       /\ gameObjs[quizGames[code]].lobby = lobbies[code]
       /\ lobbyObjs[lobbies[code]].status = "playing"
       /\ lobbyObjs[lobbies[code]].settings.winCondition = "time") =>
        RESULT_DELAY * gameObjs[quizGames[code]].currentQuestionIndex
          < lobbyObjs[lobbies[code]].settings.timeLimit

\* Records a player can hold after at most two questions: nothing, one slow
\* and one fast correct answer, two correct answers.
Records ==
    {[score |-> 0, correctAnswers |-> 0], [score |-> 100, correctAnswers |-> 1],
     [score |-> 109, correctAnswers |-> 1], [score |-> 209, correctAnswers |-> 2]}

\* The present state with the records f[1], f[2], ... on the players of the
\* lobby of game g.
WithRecords(g, f) ==
    [QCur EXCEPT !.lobbyObjs[gameObjs[g].lobby].players =
       [i \in 1 .. Len(@) |-> [@[i] EXCEPT !.score = f[i].score,
                                          !.correctAnswers = f[i].correctAnswers]]]

\* data lists the players ps once each, in descending order of key, players
\* with equal keys in the order of ps.
IsRanking(data, ps, key) ==
    /\ Len(data) = Len(ps)
    /\ \A i \in 1 .. Len(ps) :
         \E j \in 1 .. Len(data) :
           data[j] = [sid |-> ps[i].sid, score |-> ps[i].score,
                      correctAnswers |-> ps[i].correctAnswers]
    /\ \A i, j \in 1 .. Len(data) :
         i < j => \/ data[i][key] > data[j][key]
                  \/ /\ data[i][key] = data[j][key]
                     /\ \E a, b \in 1 .. Len(ps) :
                          a < b /\ ps[a].sid = data[i].sid /\ ps[b].sid = data[j].sid

\* C28: when the advance after a question ends a game, the lobby status is
\* ended, the question timer is cancelled, no code of the game registry leads
\* to the game and the lobby registry is as before; every player receives
\* game_ended with the standings in descending order of the correct-answer
\* count under correct_answers and of the score under score and time, and
\* with the first entry as winner. With two players over the score threshold
\* after one question the game ends there, the higher score first.
C28_EndGame ==
    \A g \in 1 .. Len(gameObjs) : gameObjs[g].nextPending > 0 =>
      \A f \in [1 .. Len(lobbyObjs[gameObjs[g].lobby].players) -> Records] :
        LET l == gameObjs[g].lobby
            Q0 == WithRecords(g, f)
            L == Q0.lobbyObjs[l]
            N == AfterDelay(Q0, g)
            key == IF L.settings.winCondition = "correct_answers" THEN "correctAnswers"
                   ELSE "score"
            ends ==
              \/ gameObjs[g].currentQuestionIndex + 1 >= gameObjs[g].nq
              \/ /\ L.settings.winCondition = "correct_answers"
                 /\ \E i \in 1 .. Len(L.players) :
                      L.players[i].correctAnswers >= L.settings.correctAnswersThreshold
              \/ /\ L.settings.winCondition = "score"
                 /\ \E i \in 1 .. Len(L.players) : L.players[i].score >= L.settings.scoreThreshold
        IN  ends =>
              /\ N.lobbyObjs[l].status = "ended"
              /\ ~N.gameObjs[g].timer
              /\ \A c \in Codes : N.quizGames[c] # g
              /\ N.lobbies = lobbies
              /\ N.lobbyObjs[l].players = L.players
              /\ \A i \in 1 .. Len(L.players) :
                   \E e \in N.emits :
                     /\ e.name = "game_ended" /\ e.to = L.players[i].sid
                     /\ IsRanking(e.data, L.players, key)
                     /\ e.n = e.data[1].sid
                     /\ \A j \in 1 .. Len(L.players) : e.data[1][key] >= L.players[j][key]
              /\ \A e \in N.emits : e.name = "game_ended" => IsRanking(e.data, L.players, key)

\* C28 witness: after the first of two questions of a score game both players
\* are over the threshold, and the advance that ends the game is pending.
C28_Witness ==
    \E g \in 1 .. Len(gameObjs) :
      /\ gameObjs[g].nextPending > 0 /\ gameObjs[g].nq = 2
      /\ gameObjs[g].currentQuestionIndex = 0
      /\ quizGames[lobbyObjs[gameObjs[g].lobby].code] = g
      /\ lobbyObjs[gameObjs[g].lobby].status = "playing"
      /\ lobbyObjs[gameObjs[g].lobby].settings.winCondition = "score"
      /\ Len(lobbyObjs[gameObjs[g].lobby].players) = 2
      /\ \A i \in 1 .. 2 :
           lobbyObjs[gameObjs[g].lobby].players[i].score
             >= lobbyObjs[gameObjs[g].lobby].settings.scoreThreshold

\* The game objects whose lobby is lobby object l.
GamesOfLobby(l) == {g \in 1 .. Len(gameObjs) : gameObjs[g] # CollectedGame /\ gameObjs[g].lobby = l}

RECURSIVE SumOver(_, _)
\* The sum of the count n[g] over the games g of the set S.
SumOver(S, n) ==
    IF S = {} THEN 0 ELSE LET g == CHOOSE g \in S : TRUE IN n[g] + SumOver(S \ {g}, n)

\* C29: at every moment a lobby has at most one armed question timer and at
\* most one pending advance delay, counted over all the games made for it.
C29_OneTimerEach ==
    \A l \in 1 .. Len(lobbyObjs) :
      /\ SumOver(GamesOfLobby(l), [g \in 1 .. Len(gameObjs) |-> gameObjs[g].timersArmed]) <= 1
      /\ SumOver(GamesOfLobby(l), [g \in 1 .. Len(gameObjs) |-> gameObjs[g].nextPending]) <= 1

\* Game object g is the game the registry holds for the code of its lobby, and
\* that lobby is the one the lobby registry holds for the code.
Registered(g) ==
    /\ gameObjs[g].lobby # 0
    /\ lobbyObjs[gameObjs[g].lobby].code # 0
    /\ quizGames[lobbyObjs[gameObjs[g].lobby].code] = g
    /\ lobbies[lobbyObjs[gameObjs[g].lobby].code] = gameObjs[g].lobby

\* C30: no timer callback runs for a game that has left the registry, or whose
\* lobby has: a step in which an advance delay of a game elapses, and
\* nextQuestion runs for it, is a step of a registered game of a registered
\* lobby.
C30_NoCallbackAfterRemoval ==
    [][\A g \in 1 .. Len(gameObjs) :
         gameObjs'[g].nextPending < gameObjs[g].nextPending => Registered(g)]_vars

\* The events of a match the handlers turn down as out of place: a bid
\* outside bidding, a move outside playing or out of turn, a resignation or a
\* draw action outside playing.
C31_Match ==
    \A s \in Sockets : Sends(s) =>
      /\ ~PlayerIn(s, "bidding") => \A h \in BidInputs : Rejected(bidHandler(Cur, s, h), s)
      /\ ~IsMover(s) => \A r \in MoveResults : Rejected(moveHandler(Cur, s, r), s)
      /\ ~PlayerIn(s, "playing") =>
           /\ Rejected(resignHandler(Cur, s), s)
           /\ Rejected(offerDrawHandler(Cur, s), s)
           /\ Rejected(acceptDrawHandler(Cur, s), s)
           /\ Rejected(declineDrawHandler(Cur, s), s)

\* The events of a quiz the handlers turn down: start_game, restart_game and
\* kick_player of a channel that is not the host of its lobby, the kick of the
\* host and of a channel that is not in the player list, submit_answer with no
\* game registered for the lobby or with an index outside 0 .. 3.
C31_Quiz ==
    \A s \in QuizSockets : (QuizSends(s) /\ LobbyOf(s) # 0) =>
      /\ lobbyObjs[LobbyOf(s)].host # s =>
           /\ \A st \in SettingsInputs \cup {NoSettings} : QuizRejected(startGame(QCur, s, st), s)
           /\ QuizRejected(restartGame(QCur, s), s)
           /\ \A u \in QuizSockets : QuizRejected(kickPlayer(QCur, s, u), s)
      /\ lobbyObjs[LobbyOf(s)].host = s =>
           \A u \in QuizSockets :
             (u = s \/ FindPlayer(lobbyObjs[LobbyOf(s)].players, u) = 0) =>
               QuizRejected(kickPlayer(QCur, s, u), s)
      /\ \A selectedIndex \in AnswerInputs :
           (QuizGameOf(s) = 0 \/ selectedIndex \notin 0 .. 3) =>
             QuizRejected(submitAnswer(QCur, s, selectedIndex, 50), s)

\* C31: every event turned down as a protocol violation sends one error to
\* its sender, nothing to anybody else, and leaves sessions, lobbies, games and
\* armed timers as they were.
C31_ProtocolViolations == C31_Match /\ C31_Quiz

\* The request op that handler state R suspended at the deck lookup has failed
\* there (no deck, or a deck without cards): channel s has one error and the
\* state is the one before the request.
FailedClean(R, s) ==
    /\ R.pendingOps # pendingOps
    /\ \A op \in R.pendingOps \ pendingOps :
         LET F == gameSettled(R, op, 0)
         IN  /\ [F EXCEPT !.emits = {}] = QCur
             /\ \E e \in F.emits : F.emits = {e} /\ e.name = "error" /\ e.to = s

\* C32: a start_game or restart_game of the host that fails at the deck
\* lookup sends the host an error and leaves the lobby's settings and status,
\* every player's score and correct-answer count and the game registry as
\* they were before the request.
C32_DeckFailure ==
    \A s \in QuizSockets :
      (/\ QuizSends(s) /\ LobbyOf(s) # 0 /\ lobbyObjs[LobbyOf(s)].host = s
       /\ pendingOps = {}) =>
        /\ Len(lobbyObjs[LobbyOf(s)].players) >= 1 =>
             \A st \in SettingsInputs \cup {NoSettings} : FailedClean(startGame(QCur, s, st), s)
        /\ lobbyObjs[LobbyOf(s)].status = "ended" => FailedClean(restartGame(QCur, s), s)

\* C33: the end-of-game routine runs at most once for a session, and the
\* statistics record at most one win and at most one loss for it, also when a
\* player disconnects while the statistics update of the ended session is
\* outstanding.
C33_OneOutcome ==
    \A g \in GameIds :
      /\ endCalls[g] <= 1
      /\ statWrites[g].win <= 1
      /\ statWrites[g].loss <= 1


\* C34: every newly created match session starts with no recorded bid for
\* either of its players, also when one of them was put back on the queue
\* after an earlier session was discarded during bidding (so no session leaves
\* bidding on a bid made in an earlier session).
C34_FreshBids ==
    [][\A g \in GameIds' :
         g \notin GameIds =>
            /\ bid'[games'[g].white] = 0
            /\ bid'[games'[g].black] = 0]_vars

\* C39: the matchmaking queue never holds two or more players, also after a
\* player is put back on it when its opponent disconnects during bidding,
\* and the channel of every queued player is still connected.
C39_Queue ==
    /\ Len(waitingQueue) <= 1
    /\ \A i \in 1 .. Len(waitingQueue) : sock[waitingQueue[i]].connected

\* Every eligible player of the lobby of game g has a recorded answer in the
\* state Q a quiz handler ended in.
AllAnswered(Q, g) ==
    \A t \in Eligible(Q.lobbyObjs[gameObjs[g].lobby]) :
        Q.gameObjs[g].answersSubmitted[t] # NoAnswer

\* C35: a submit_answer or kick_player that arrives while the question timer
\* is armed finalizes the question only if every eligible player then in the
\* lobby has a recorded answer; an answer left behind by a player who is gone
\* and the hostParticipates = false adjustment do not finalize it earlier.
C35_FinalizedOnlyWhenAllAnswered ==
    \A s \in QuizSockets :
      (/\ QuizSends(s) /\ LobbyOf(s) # 0 /\ QuizGameOf(s) # 0
       /\ gameObjs[QuizGameOf(s)].lobby = LobbyOf(s)
       /\ gameObjs[QuizGameOf(s)].timer) =>
        LET g == QuizGameOf(s) IN
        /\ \A selectedIndex \in 0 .. 3 :
             LET A == submitAnswer(QCur, s, selectedIndex, 50)
             IN  Finalized(A, g) => AllAnswered(A, g)
        /\ \A u \in QuizSockets :
             LET K == kickPlayer(QCur, s, u)
             IN  Finalized(K, g) => AllAnswered(K, g)

\* What one step does to the question of game object g, when g is a game
\* before and after it: results are sent (one more advance delay is pending)
\* only for a question that is open, and the question index moves only by
\* one, only when the one advance delay of the finalized question runs.
C36_Step(g) ==
    (gameObjs[g].lobby # 0 /\ gameObjs'[g].lobby # 0) =>
        /\ gameObjs'[g].nextPending > gameObjs[g].nextPending => gameObjs[g].timer
        /\ gameObjs'[g].currentQuestionIndex # gameObjs[g].currentQuestionIndex =>
             /\ gameObjs'[g].currentQuestionIndex = gameObjs[g].currentQuestionIndex + 1
             /\ ~gameObjs[g].timer
             /\ gameObjs[g].nextPending = 1

\* C36: within one game every question is finalized exactly once and the
\* question index advances by exactly one per finalized question, so no
\* question is skipped, also when a kick, a late join or an answer arrives
\* during the delay between the results and the next question.
C36_InOrder == [][\A g \in 1 .. Len(gameObjs) : C36_Step(g)]_vars

\* C37: a registered lobby has status playing exactly when the game registry
\* holds a game under its code, and that game refers to this lobby; the game
\* registry holds no game under a code whose lobby is deleted.
C37_StatusAndRegistry ==
    \A c \in Codes :
        /\ lobbies[c] # 0 =>
             /\ lobbyObjs[lobbies[c]].status = "playing" <=> quizGames[c] # 0
             /\ quizGames[c] # 0 => gameObjs[quizGames[c]].lobby = lobbies[c]
        /\ lobbies[c] = 0 => quizGames[c] = 0

\* C38: once a quiz channel has disconnected, no registered lobby has it in
\* its player list or as its host, whatever create_lobby, join_lobby and
\* leave_lobby events the channel sent before.
C38_GoneAfterDisconnect ==
    \A s \in QuizSockets : qsock[s].st = "closed" =>
        \A c \in Codes : lobbies[c] # 0 =>
            /\ lobbyObjs[lobbies[c]].host # s
            /\ FindPlayer(lobbyObjs[lobbies[c]].players, s) = 0

\* Match session g has reached playing and is registered.
MatchPlaying(g) == g \in activeGames /\ games[g].phase = "playing"

\* Match session g has ended and is out of the registry.
MatchOver(g) == g \in GameIds /\ g \notin activeGames /\ games[g].phase \in {"ended", "collected"}

\* C40 (match): every session that reached playing eventually is ended and
\* out of the registry, whatever moves are sent.
C40_Match == \A g \in 1 .. NumSockets \div 2 : MatchPlaying(g) ~> MatchOver(g)

\* Quiz game object g is a started game of lobby object l, which has a player.
QuizRunning(g, l) ==
    /\ g <= Len(gameObjs) /\ l <= Len(lobbyObjs) /\ gameObjs[g].lobby = l
    /\ Len(lobbyObjs[l].players) > 0

\* Quiz game object g has no timer and no delay left and lobby l has ended.
QuizOver(g, l) ==
    /\ g <= Len(gameObjs) /\ l <= Len(lobbyObjs)
    /\ ~gameObjs[g].timer /\ gameObjs[g].timersArmed = 0 /\ gameObjs[g].nextPending = 0
    /\ lobbyObjs[l].status = "ended"

\* Lobby object l has lost all its players.
QuizEmptied(l) == l <= Len(lobbyObjs) /\ Len(lobbyObjs[l].players) = 0

\* C40 (quiz): every started game whose lobby keeps a player eventually ends.
C40_Quiz ==
    \A g \in 1 .. MaxGameObjs, l \in 1 .. GameLobbyObjs :
        QuizRunning(g, l) ~> (QuizOver(g, l) \/ QuizEmptied(l))

\* C40: when every timer that stays armed fires, every started quiz game
\* whose lobby keeps a player eventually ends with the lobby status ended, and
\* every match session that reached playing eventually is ended and out of
\* the registry, also when no player answers or makes a legal move.
C40_TimersEndEveryGame == C40_Match /\ C40_Quiz
Next ==
    \/ \E s \in 1 .. MatchPlayers : Connect(s)
    \/ \E s \in Sockets : ConnectRejected(s)
    \/ \E s \in Sockets : Pair(s)
    \/ \E g \in GameIds, stage \in {"win", "loss"}, ok \in BOOLEAN : StatsSettled(g, stage, ok)
    \/ \E s \in Sockets, h \in BidInputs : Bid(s, h)
    \/ \E g \in GameIds : BiddingTick(g)
    \/ \E g \in GameIds, key \in {"whiteTime", "blackTime"} : TurnTick(g, key)
    \/ \E s \in Sockets, r \in MoveResults : Move(s, r)
    \/ \E s \in Sockets : Resign(s)
    \/ \E s \in Sockets : OfferDraw(s)
    \/ \E s \in Sockets : AcceptDraw(s)
    \/ \E s \in Sockets : DeclineDraw(s)
    \/ \E s \in Sockets : Disconnect(s)

Spec == Init /\ [][Next]_vars

\* The matches in which bids, when sent, are sent at once and for the minimum:
\* the runs of Next that end a session are all among them.
EndNext ==
    \/ \E s \in 1 .. MatchPlayers : Connect(s)
    \/ \E s \in Sockets : ConnectRejected(s)
    \/ \E s \in Sockets : Pair(s)
    \/ \E s \in Sockets :
         /\ sock[s].gameId # 0
         /\ games[sock[s].gameId].biddingTimeLeft = BIDDING_WINDOW
         /\ Bid(s, 2 * MIN_BID)
    \/ \E g \in GameIds : BiddingTick(g)
    \/ \E g \in GameIds, key \in {"whiteTime", "blackTime"} : TurnTick(g, key)
    \/ \E g \in GameIds, stage \in {"win", "loss"}, ok \in BOOLEAN : StatsSettled(g, stage, ok)
    \/ \E s \in Sockets, r \in MoveResults : Move(s, r)
    \/ \E s \in Sockets : Resign(s)
    \/ \E s \in Sockets : OfferDraw(s)
    \/ \E s \in Sockets : AcceptDraw(s)
    \/ \E s \in Sockets : DeclineDraw(s)
    \/ \E s \in Sockets : Disconnect(s)

\* The statistics updates of suspended endGame calls settle eventually.
FairSpec ==
    /\ Init /\ [][EndNext]_vars
    /\ WF_vars(\E g \in GameIds, stage \in {"win", "loss"}, ok \in BOOLEAN : StatsSettled(g, stage, ok))

\* The runs of every match channel in which bids are for the minimum:
\* three channels connect, so a player put back on the queue meets a newcomer.
RequeueNext ==
    \/ \E s \in Sockets : Connect(s)
    \/ \E s \in Sockets : Pair(s)
    \/ \E s \in Sockets : Bid(s, 2 * MIN_BID)
    \/ \E g \in GameIds : BiddingTick(g)
    \/ \E g \in GameIds, stage \in {"win", "loss"}, ok \in BOOLEAN : StatsSettled(g, stage, ok)
    \/ \E s \in Sockets : Disconnect(s)

RequeueSpec == Init /\ [][RequeueNext]_vars

\* The runs of one subsystem alone in which nothing but the timers has to move
\* a started match or quiz game on: in the match, bids are sent at once and for
\* the minimum and the moves sent are rejected by the rule engine; in the
\* quiz, TimerPlayers authenticated channels use one lobby, start its game
\* without new settings on a deck of MaxQuestions cards and answer with
\* option 0.
MatchIdle == \A s \in Sockets : sock[s].st = "new"

QuizIdle == \A s \in QuizSockets : qsock[s].st = "new"

TimerNext ==
    \/ QuizIdle /\ \E s \in 1 .. MatchPlayers : Connect(s)
    \/ QuizIdle /\ \E s \in Sockets : Pair(s)
    \/ \E s \in Sockets :
         /\ sock[s].gameId # 0
         /\ games[sock[s].gameId].biddingTimeLeft = BIDDING_WINDOW
         /\ Bid(s, 2 * MIN_BID)
    \/ \E g \in GameIds : BiddingTick(g)
    \/ \E g \in GameIds, key \in {"whiteTime", "blackTime"} : TurnTick(g, key)
    \/ \E s \in Sockets : Move(s, "illegal")
    \/ \E g \in GameIds, stage \in {"win", "loss"}, ok \in BOOLEAN : StatsSettled(g, stage, ok)
    \/ MatchIdle /\ \E s \in 1 .. TimerPlayers : QuizConnect(s, TRUE)
    \/ \E s \in QuizSockets, st \in SettingsInputs :
         /\ Cardinality(createLobby(QCur, s, st).pendingOps) <= GamePending
         /\ Len(lobbyObjs) < GameLobbyObjs
         /\ CreateLobby(s, st)
    \/ \E op \in pendingOps : CreateLobbySettled(op, TRUE, 1)
    \/ \E s \in QuizSockets : JoinLobby(s, 1)
    \/ \E s \in QuizSockets :
         /\ Cardinality(startGame(QCur, s, NoSettings).pendingOps) <= GamePending
         /\ StartGame(s, NoSettings)
    \/ \E op \in pendingOps : GameSettled(op, MaxQuestions)
    \/ \E s \in QuizSockets : SubmitAnswer(s, 0, 50)
    \/ \E g \in 1 .. MaxGameObjs, latest \in BOOLEAN : QuestionTimeout(g, latest)
    \/ \E g \in 1 .. MaxGameObjs : NextQuestion(g)

\* Every armed interval and timeout fires unless it is cleared first, and the
\* statistics updates settle.  A turn interval that a handler clears and
\* replaces is another interval: the one cleared never fires.
TimerSpec ==
    /\ Init /\ [][TimerNext]_vars
    /\ WF_vars(\E g \in GameIds : BiddingTick(g))
    /\ \A id \in {0, 1} :
         WF_vars(turnTimerId = id /\ \E g \in GameIds, key \in {"whiteTime", "blackTime"} : TurnTick(g, key))
    /\ WF_vars(\E g \in GameIds, stage \in {"win", "loss"}, ok \in BOOLEAN : StatsSettled(g, stage, ok))
    /\ WF_vars(\E g \in 1 .. Len(gameObjs), latest \in BOOLEAN : QuestionTimeout(g, latest))
    /\ WF_vars(\E g \in 1 .. Len(gameObjs) : NextQuestion(g))

====
